---- MODULE Spec2Model ----
(***************************************************************************)
(* Deadline bot: the deadline store, the notification settings, the ledger *)
(* of sent notifications and the two periodic scheduler jobs.              *)
(*                                                                         *)
(* Time is counted in seconds since the start of the run.  A row of a      *)
(* table is a record, a table is a set of rows; the ledger, which has no   *)
(* uniqueness constraint, is a row count per (deadline_id, type).          *)
(***************************************************************************)
EXTENDS Integers, Sequences, FiniteSets, TLC

VARIABLES
    now,                    \* the wall clock, datetime.now(timezone.utc)
    deadlines,              \* table deadlines
    notification_settings,  \* table notification_settings
    users,                  \* table users
    calls,                  \* the service calls between their read and their write
    running,                \* the instances of each job that the executor is running
    limiter_calls,          \* RateLimitMiddleware.calls of the limiter of each observer
    handled,                \* history: events handed on to their handler, per instant
    sent_notifications,     \* table sent_notifications, rows per (deadline_id, type)
    delivered,              \* messages bot.send_message handed over, per (deadline_id, type)
    timer,                  \* the interval triggers of the scheduler
    armed,                  \* history: (deadline, kind) was enabled before its window opened
    last                    \* outcome of the last operation

vars == <<now, deadlines, notification_settings, users, calls, running,
          limiter_calls, handled,
          sent_notifications, delivered, timer, armed, last>>

----------------------------------------------------------------------------
(* Bounds of the model *)

MaxNow == 120
MaxDeadlines == 2
MaxTicks == 3
MaxMarkers == 2
MaxRateNow == 10
MaxEvents == 6

(* Inputs *)

Users == {1, 2}

Title == <<"a">>

AdvanceSteps == {60, 120}

----------------------------------------------------------------------------
(* Program constants *)

WeekSeconds == 604800
ThreeDaysSeconds == 259200
DaySeconds == 86400
ThreeHoursSeconds == 10800
HourSeconds == 3600

IntervalSeconds == 60

None == "None"

valid_fields == {"notify_1_week", "notify_3_days", "notify_1_day",
                 "notify_3_hours", "notify_1_hour"}

SettingsFlags == valid_fields \cup {"notify_on_due"}

LeadTypes == {"1_week", "3_days", "1_day", "3_hours", "1_hour"}
Overdue == "overdue"
NotificationTypes == LeadTypes \cup {Overdue}

DeadlineIds == 1..MaxDeadlines
Pairs == DeadlineIds \X NotificationTypes

DeadlineServiceMethods ==
    {"create", "get_due", "list_for_user", "delete", "get_by_id",
     "get_or_create_user", "edit_timezone", "get_timezone_for_user", "update"}

Jobs == {"check_deadlines", "check_upcoming_deadlines"}

(* main: one RateLimitMiddleware(time_limit=10, max_calls=5) is registered *)
(* on the message observer and another on the callback-query observer.    *)
Observers == {"message", "callback_query"}

time_limit == 10

max_calls == 5

(* An event is what a limiter tells apart: its observer, the id of the     *)
(* user it is from and the instant datetime.now() reads when it arrives.   *)
Events == Observers \X Users \X (0..MaxRateNow)

----------------------------------------------------------------------------
(* The exception classes, each with its base class *)
exception_bases ==
    [DatabaseError |-> "DeadlineBotError", DeadlineNotFoundError |-> "DatabaseError",
     ValidationError |-> "DeadlineBotError", InvalidTimezoneError |-> "ValidationError",
     InvalidDateError |-> "ValidationError", InvalidDeadlineError |-> "ValidationError",
     CallbackDataError |-> "DeadlineBotError", NotificationError |-> "DeadlineBotError",
     TimezoneConversionError |-> "NotificationError", ServiceError |-> "DeadlineBotError",
     DeadlineCreationError |-> "ServiceError", DeadlineUpdateError |-> "ServiceError",
     DeadlineDeletionError |-> "ServiceError"]

(* an exception of class raised is caught or expected as class cls *)
RECURSIVE isinstance(_, _)
isinstance(raised, cls) ==
    \/ raised = cls
    \/ raised \in DOMAIN exception_bases /\ isinstance(exception_bases[raised], cls)

(* Helpers over the tables *)

Max(S) == CHOOSE x \in S : \A y \in S : y <= x

RECURSIVE lstrip(_)
lstrip(s) == IF s # <<>> /\ Head(s) = " " THEN lstrip(Tail(s)) ELSE s

RECURSIVE rstrip(_)
rstrip(s) ==
    IF s # <<>> /\ s[Len(s)] = " " THEN rstrip(SubSeq(s, 1, Len(s) - 1)) ELSE s

strip(s) == rstrip(lstrip(s))

NextId(rows) == IF rows = {} THEN 1 ELSE Max({r.id : r \in rows}) + 1

DeadlineRow(id) == CHOOSE d \in deadlines : d.id = id

NewSettings(user_id, kwargs) ==
    [f \in SettingsFlags |-> IF f \in DOMAIN kwargs THEN kwargs[f] ELSE FALSE]
        @@ [user_id |-> user_id]

Quiet ==
    [op |-> None, raised |-> None, reported |-> {}, dispatched |-> {},
     marked |-> {}, failed |-> {}, skipped |-> {}, lookup_failed |-> {},
     send_fail |-> {}, crashed |-> FALSE, fetch_failed |-> FALSE,
     retry |-> FALSE, result |-> {}, args |-> <<>>, answer |-> FALSE,
     returned |-> {}, listed |-> <<>>, store_failed |-> FALSE]

----------------------------------------------------------------------------
(* Datetimes: a wall-clock reading and its tzinfo (None when naive) *)

UtcOffset == [tzinfo \in {"UTC", "EST"} |->
                 IF tzinfo = "EST" THEN 0 - 5 * HourSeconds ELSE 0]

ensure_aware(dt) ==
    IF dt.tzinfo = None THEN [dt EXCEPT !.tzinfo = "UTC"] ELSE dt

Instant(dt) == dt.wall - UtcOffset[dt.tzinfo]

(* The store: the default database is SQLite, whose DateTime column keeps  *)
(* the wall-clock fields of the value and no offset; a server database     *)
(* keeps the instant.  refresh is the value the session reads back.        *)
database_dialect == "sqlite"

is_sqlite == database_dialect = "sqlite"

refresh(dt) ==
    IF is_sqlite THEN [wall |-> dt.wall, tzinfo |-> None]
    ELSE [wall |-> Instant(dt), tzinfo |-> "UTC"]

(* The instant the readers of the table take a stored value for: a naive   *)
(* value is taken as UTC.                                                  *)
StoredInstant(dt) == Instant(ensure_aware(refresh(dt)))

----------------------------------------------------------------------------
(* NotificationService: the ledger *)

was_sent_ignored(deadline_id, notification_type, lookup_fails) == lookup_fails

(* the lookup that lets its failure pass for "not sent" *)
was_sent_fail_open(deadline_id, notification_type, lookup_fails) ==
    ~lookup_fails /\ sent_notifications[<<deadline_id, notification_type>>] >= 1

(* the lookup that takes several rows of a pair for no row *)
was_sent_one_row(deadline_id, notification_type, lookup_fails) ==
    lookup_fails \/ sent_notifications[<<deadline_id, notification_type>>] = 1

was_sent(deadline_id, notification_type, lookup_fails) ==
    IF lookup_fails \/ sent_notifications[<<deadline_id, notification_type>>] > 1
    THEN TRUE
    ELSE sent_notifications[<<deadline_id, notification_type>>] = 1

(* NotificationService.get_deadlines_for_notifications *)

TwoMinutes == 120

NarrowWindow == IntervalSeconds

(* the window that reaches from one lead time to the next *)
WideWindow == ThreeHoursSeconds

WINDOW == TwoMinutes

notification_checks ==
    << [flag |-> "notify_1_week",  timeframe |-> WeekSeconds,       type |-> "1_week"],
       [flag |-> "notify_3_days",  timeframe |-> ThreeDaysSeconds,  type |-> "3_days"],
       [flag |-> "notify_1_day",   timeframe |-> DaySeconds,        type |-> "1_day"],
       [flag |-> "notify_3_hours", timeframe |-> ThreeHoursSeconds, type |-> "3_hours"],
       [flag |-> "notify_1_hour",  timeframe |-> HourSeconds,       type |-> "1_hour"] >>

InTimeframeInclusive(timeframe, time_until) ==
    timeframe <= time_until /\ time_until <= timeframe + WINDOW

InTimeframe(timeframe, time_until) ==
    timeframe <= time_until /\ time_until < timeframe + WINDOW

FutureDeadlines == {d \in deadlines : d.deadline_at > now}

SettingsOrDefault(user_id) ==
    IF \E s \in notification_settings : s.user_id = user_id
    THEN {s \in notification_settings : s.user_id = user_id}
    ELSE {NewSettings(user_id, [f \in valid_fields |-> TRUE])}

SettingsOf(user_id) == {s \in notification_settings : s.user_id = user_id}

ChecksDue(deadline, settings, lookup_fail) ==
    SelectSeq(notification_checks,
              LAMBDA c : /\ settings[c.flag]
                         /\ InTimeframe(c.timeframe, deadline.deadline_at - now)
                         /\ ~was_sent(deadline.id, c.type,
                                      <<deadline.id, c.type>> \in lookup_fail))

NotificationsOf(deadline, eval_fail, lookup_fail) ==
    IF deadline.id \in eval_fail \/ Cardinality(SettingsOf(deadline.user_id)) > 1
    THEN <<>>
    ELSE IF SettingsOf(deadline.user_id) = {}
    THEN <<>>
    ELSE LET settings == CHOOSE s \in SettingsOf(deadline.user_id) : TRUE
             due == ChecksDue(deadline, settings, lookup_fail)
         IN  [i \in 1..Len(due) |-> <<deadline.id, due[i].type>>]

RECURSIVE ScanFrom(_, _, _)
ScanFrom(id, eval_fail, lookup_fail) ==
    IF id > MaxDeadlines THEN <<>>
    ELSE (IF \E d \in FutureDeadlines : d.id = id
          THEN NotificationsOf(DeadlineRow(id), eval_fail, lookup_fail)
          ELSE <<>>) \o ScanFrom(id + 1, eval_fail, lookup_fail)

get_deadlines_for_notifications(eval_fail, lookup_fail) ==
    ScanFrom(1, eval_fail, lookup_fail)

FetchSwallowed(fetch_fails) == None

FetchOutcome(fetch_fails) == IF fetch_fails THEN "NotificationError" ELSE None

(* The (deadline, type) pairs whose ledger lookup the scan performs *)
LookedUp ==
    {p \in Pairs : \E d \in FutureDeadlines, s \in notification_settings,
                       i \in 1..Len(notification_checks) :
                       /\ d.id = p[1] /\ s.user_id = d.user_id
                       /\ notification_checks[i].type = p[2]
                       /\ s[notification_checks[i].flag]
                       /\ InTimeframe(notification_checks[i].timeframe,
                                      d.deadline_at - now)}

Range(seq) == {seq[i] : i \in 1..Len(seq)}

----------------------------------------------------------------------------
(* History: the pair (deadline, kind) is armed when the deadline existed   *)
(* with the owner's flag of that kind enabled at an instant at which the   *)
(* kind's window had not opened yet, and the flag stayed enabled since.    *)

Arm(ds, ss, t) ==
    [p \in Pairs |->
        \E d \in ds, s \in ss, i \in 1..Len(notification_checks) :
            /\ d.id = p[1] /\ s.user_id = d.user_id
            /\ notification_checks[i].type = p[2]
            /\ s[notification_checks[i].flag]
            /\ \/ armed[p]
               \/ d.deadline_at - t >= notification_checks[i].timeframe + TwoMinutes]

----------------------------------------------------------------------------
(* DeadlineService.create *)

(* the check that also refuses a due instant equal to now *)
PastOrNow(dt) == Instant(dt) <= now

IsPast(dt) == Instant(dt) < now

(* the check that lets a title of whitespace pass *)
EmptyOnly(title) == title = <<>>

Blank(title) == title = <<>> \/ strip(title) = <<>>

(* the create that lets the exception of the store leave as it is *)
create_unwrapped(user_id, title, dt, store_fails) ==
    LET aware == ensure_aware(dt)
        raised == IF IsPast(aware) THEN "InvalidDeadlineError"
                  ELSE IF Blank(title) THEN "ValidationError"
                  ELSE IF store_fails THEN "Exception"
                  ELSE None
        deadline == [id |-> NextId(deadlines), user_id |-> user_id,
                     title |-> strip(title), deadline_at |-> StoredInstant(aware)]
    IN  /\ deadlines' = IF raised = None THEN deadlines \cup {deadline} ELSE deadlines
        /\ last' = [Quiet EXCEPT !.op = "create", !.raised = raised,
                                 !.args = <<user_id, title, dt>>,
                                 !.store_failed = store_fails,
                                 !.returned = IF raised = None
                                              THEN {[deadline EXCEPT
                                                       !.deadline_at = refresh(aware)]}
                                              ELSE {}]
        /\ UNCHANGED <<limiter_calls, handled, running, users, calls, now,
                       notification_settings,
                       sent_notifications,
                       delivered>>

create(user_id, title, dt, store_fails) ==
    LET aware == ensure_aware(dt)
        raised == IF IsPast(aware) THEN "InvalidDeadlineError"
                  ELSE IF Blank(title) THEN "ValidationError"
                  ELSE IF store_fails THEN "DeadlineCreationError"
                  ELSE None
        deadline == [id |-> NextId(deadlines), user_id |-> user_id,
                     title |-> strip(title), deadline_at |-> StoredInstant(aware)]
    IN  /\ deadlines' = IF raised = None THEN deadlines \cup {deadline} ELSE deadlines
        /\ last' = [Quiet EXCEPT !.op = "create", !.raised = raised,
                                 !.args = <<user_id, title, dt>>,
                                 !.store_failed = store_fails,
                                 !.returned = IF raised = None
                                              THEN {[deadline EXCEPT
                                                       !.deadline_at = refresh(aware)]}
                                              ELSE {}]
        /\ UNCHANGED <<limiter_calls, handled, running, users, calls,
                       now, notification_settings, sent_notifications, delivered>>

(* DeadlineService.update *)

(* the update that writes both columns, an absent argument as the value of *)
(* a new row's column would be: no title, due now                          *)
update_both_columns(deadline_id, kwargs, store_fails) ==
    LET found == {d \in deadlines : d.id = deadline_id}
        raised == IF "title" \in DOMAIN kwargs /\ strip(kwargs.title) = <<>>
                  THEN "ValidationError"
                  ELSE IF "dt" \in DOMAIN kwargs /\ IsPast(ensure_aware(kwargs.dt))
                  THEN "InvalidDeadlineError"
                  ELSE IF store_fails THEN "DeadlineUpdateError"
                  ELSE IF found = {} THEN "DeadlineNotFoundError"
                  ELSE None
        updated == {[d EXCEPT
                       !.title = IF "title" \in DOMAIN kwargs
                                 THEN strip(kwargs.title) ELSE <<>>,
                       !.deadline_at = IF "dt" \in DOMAIN kwargs
                                       THEN StoredInstant(ensure_aware(kwargs.dt))
                                       ELSE now] : d \in found}
    IN  /\ deadlines' = IF raised = None THEN (deadlines \ found) \cup updated
                        ELSE deadlines
        /\ last' = [Quiet EXCEPT !.op = "update", !.raised = raised,
                                 !.args = <<deadline_id, kwargs>>,
                                 !.store_failed = store_fails,
                                 !.answer = (raised = None)]
        /\ UNCHANGED <<limiter_calls, handled, running, users, calls,
                       now, notification_settings, sent_notifications, delivered>>

(* the update that does not look at the title before it writes it *)
update_title_unchecked(deadline_id, kwargs, store_fails) ==
    LET found == {d \in deadlines : d.id = deadline_id}
        raised == IF "dt" \in DOMAIN kwargs /\ IsPast(ensure_aware(kwargs.dt))
                  THEN "InvalidDeadlineError"
                  ELSE IF store_fails THEN "DeadlineUpdateError"
                  ELSE IF found = {} THEN "DeadlineNotFoundError"
                  ELSE None
        updated == {[d EXCEPT
                       !.title = IF "title" \in DOMAIN kwargs
                                 THEN strip(kwargs.title) ELSE @,
                       !.deadline_at = IF "dt" \in DOMAIN kwargs
                                       THEN StoredInstant(ensure_aware(kwargs.dt))
                                       ELSE @] : d \in found}
    IN  /\ deadlines' = IF raised = None THEN (deadlines \ found) \cup updated
                        ELSE deadlines
        /\ last' = [Quiet EXCEPT !.op = "update", !.raised = raised,
                                 !.args = <<deadline_id, kwargs>>,
                                 !.store_failed = store_fails,
                                 !.answer = (raised = None)]
        /\ UNCHANGED <<limiter_calls, handled, running, users, calls,
                       now, notification_settings, sent_notifications, delivered>>

(* title and dt are optional, kwargs holds the ones the caller gives.  The *)
(* owner of the deadline is not looked at.                                 *)
update(deadline_id, kwargs, store_fails) ==
    LET found == {d \in deadlines : d.id = deadline_id}
        raised == IF "title" \in DOMAIN kwargs /\ strip(kwargs.title) = <<>>
                  THEN "ValidationError"
                  ELSE IF "dt" \in DOMAIN kwargs /\ IsPast(ensure_aware(kwargs.dt))
                  THEN "InvalidDeadlineError"
                  ELSE IF store_fails THEN "DeadlineUpdateError"
                  ELSE IF found = {} THEN "DeadlineNotFoundError"
                  ELSE None
        updated == {[d EXCEPT
                       !.title = IF "title" \in DOMAIN kwargs
                                 THEN strip(kwargs.title) ELSE @,
                       !.deadline_at = IF "dt" \in DOMAIN kwargs
                                       THEN StoredInstant(ensure_aware(kwargs.dt))
                                       ELSE @] : d \in found}
    IN  /\ deadlines' = IF raised = None THEN (deadlines \ found) \cup updated
                        ELSE deadlines
        /\ last' = [Quiet EXCEPT !.op = "update", !.raised = raised,
                                 !.args = <<deadline_id, kwargs>>,
                                 !.store_failed = store_fails,
                                 !.answer = (raised = None)]
        /\ UNCHANGED <<limiter_calls, handled, running, users, calls,
                       now, notification_settings, sent_notifications, delivered>>

(* validate_telegram_user: the id is a positive integer *)
ValidUserId(user_id) == user_id > 0

(* the comparison that lets every requester pass for the owner *)
OwnedByAnyone(d, user_id) == TRUE

(* the owner check of delete and get_by_id *)
OwnedBy(d, user_id) == d.user_id = user_id

(* DeadlineService.delete: only DeadlineNotFoundError passes the outer     *)
(* except unchanged, every other failure leaves as DeadlineDeletionError.  *)
(* The rows of sent_notifications that name the deadline are not touched;  *)
(* a store that enforces the foreign key refuses the delete while such     *)
(* rows exist, SQLite as configured does not enforce it.                   *)
delete_with_markers(deadline_id, user_id, store_fails) ==
    LET found == {d \in deadlines : d.id = deadline_id}
        raised == IF ~ValidUserId(user_id) \/ store_fails THEN "DeadlineDeletionError"
                  ELSE IF found = {} THEN "DeadlineNotFoundError"
                  ELSE IF \E d \in found : ~OwnedBy(d, user_id)
                  THEN "DeadlineDeletionError"
                  ELSE None
    IN  /\ deadlines' = IF raised = None THEN deadlines \ found ELSE deadlines
        /\ sent_notifications' =
               IF raised = None
               THEN [p \in Pairs |-> IF p[1] = deadline_id THEN 0
                                     ELSE sent_notifications[p]]
               ELSE sent_notifications
        /\ last' = [Quiet EXCEPT !.op = "delete", !.raised = raised,
                                 !.args = <<deadline_id, user_id>>,
                                 !.store_failed = store_fails,
                                 !.answer = (raised = None)]
        /\ UNCHANGED <<limiter_calls, handled, running, users, calls, now,
                       notification_settings,
                       delivered>>

delete(deadline_id, user_id, store_fails) ==
    LET found == {d \in deadlines : d.id = deadline_id}
        referenced == \E p \in Pairs : p[1] = deadline_id /\ sent_notifications[p] > 0
        raised == IF ~ValidUserId(user_id) \/ store_fails THEN "DeadlineDeletionError"
                  ELSE IF found = {} THEN "DeadlineNotFoundError"
                  ELSE IF \E d \in found : ~OwnedBy(d, user_id)
                  THEN "DeadlineDeletionError"
                  ELSE IF ~is_sqlite /\ referenced THEN "DeadlineDeletionError"
                  ELSE None
    IN  /\ deadlines' = IF raised = None THEN deadlines \ found ELSE deadlines
        /\ last' = [Quiet EXCEPT !.op = "delete", !.raised = raised,
                                 !.args = <<deadline_id, user_id>>,
                                 !.store_failed = store_fails,
                                 !.answer = (raised = None)]
        /\ UNCHANGED <<limiter_calls, handled, running, users, calls,
                       now, notification_settings, sent_notifications, delivered>>

(* DeadlineService.get_by_id: the id of the requester is validated, the    *)
(* row is read and its owner compared, all inside one try whose only       *)
(* handler turns every exception into DatabaseError.  An absent row is     *)
(* answered with None.                                                     *)
get_by_id(deadline_id, user_id, store_fails) ==
    LET found == {d \in deadlines : d.id = deadline_id}
        inner == IF ~ValidUserId(user_id) THEN "ValidationError"
                 ELSE IF store_fails THEN "Exception"
                 ELSE IF \E d \in found : ~OwnedBy(d, user_id) THEN "ValidationError"
                 ELSE None
        raised == IF inner # None THEN "DatabaseError" ELSE None
    IN  /\ last' = [Quiet EXCEPT !.op = "get_by_id", !.raised = raised,
                                 !.args = <<deadline_id, user_id>>,
                                 !.store_failed = store_fails,
                                 !.returned = IF raised = None THEN found ELSE {}]
        /\ UNCHANGED <<limiter_calls, handled, running, users, calls,
                       now, deadlines, notification_settings, sent_notifications,
                       delivered>>

(* DeadlineService.list_for_user *)

(* the rows in the order of their insertion, whatever their due instants *)
order_by_id(rows) ==
    {listed \in [1 .. Cardinality(rows) -> rows] :
         \A i, j \in 1 .. Cardinality(rows) : i < j => listed[i].id < listed[j].id}

(* order_by(Deadline.deadline_at): the rows, each once, ascending by due   *)
(* instant; rows with equal due instants come in an order the store picks. *)
order_by(rows) ==
    {listed \in [1 .. Cardinality(rows) -> rows] :
         /\ \A i, j \in 1 .. Cardinality(rows) : i # j => listed[i] # listed[j]
         /\ \A i, j \in 1 .. Cardinality(rows) :
               i < j => listed[i].deadline_at <= listed[j].deadline_at}

list_for_user(user_id, store_fails) ==
    \E listed \in order_by({d \in deadlines : d.user_id = user_id}) :
        /\ last' = [Quiet EXCEPT !.op = "list_for_user",
                                 !.raised = IF store_fails THEN "DatabaseError" ELSE None,
                                 !.args = <<user_id>>,
                                 !.store_failed = store_fails,
                                 !.listed = IF store_fails THEN <<>> ELSE listed]
        /\ UNCHANGED <<limiter_calls, handled, running, users, calls,
                       now, deadlines, notification_settings, sent_notifications,
                       delivered>>

(* The users table and the calls that read it and then write it.  A call   *)
(* awaits its SELECT and later its commit; another call can run between    *)
(* the two, so each such method is a select step and a commit step, and    *)
(* calls holds what a session read while its commit is still to come.      *)

Sessions == {1, 2}

Returned == [op |-> None, args |-> <<>>, seen |-> {}]

(* the table that accepts a second row of a telegram_id *)
users_unconstrained(rows, row) == TRUE

(* users.telegram_id is UNIQUE: the insert of a second row of an id fails *)
unique_telegram_id(rows, row) == \A u \in rows : u.telegram_id # row.telegram_id

(* zoneinfo: the keys that resolve *)
ZoneInfoKeys == {"UTC", "Europe/Moscow", "Asia/Tokyo"}

(* the check that takes every string for a zone *)
is_valid_timezone_any(timezone) == TRUE

is_valid_timezone(timezone) == timezone \in ZoneInfoKeys

select_user(telegram_id) == {u \in users : u.telegram_id = telegram_id}

(* scalar_one_or_none raises when the SELECT returns several rows *)
MultipleResultsFound(found) == Cardinality(found) > 1

(* DeadlineService.get_or_create_user, up to the row it read: a row that   *)
(* exists is returned, without one the call goes on to its insert.         *)
get_or_create_user_select(session, telegram_id, store_fails) ==
    LET found == select_user(telegram_id)
        raised == IF store_fails \/ MultipleResultsFound(found)
                  THEN "DatabaseError" ELSE None
    IN  /\ calls[session] = Returned
        /\ IF raised = None /\ found = {}
           THEN /\ calls' = [calls EXCEPT ![session] =
                               [op |-> "get_or_create_user", args |-> <<telegram_id>>,
                                seen |-> found]]
                /\ UNCHANGED last
           ELSE /\ last' = [Quiet EXCEPT !.op = "get_or_create_user",
                                         !.raised = raised,
                                         !.args = <<telegram_id>>,
                                         !.store_failed = store_fails,
                                         !.returned = IF raised = None THEN found ELSE {}]
                /\ UNCHANGED calls
        /\ UNCHANGED <<limiter_calls, handled, running, users, now, deadlines,
                       notification_settings,
                       sent_notifications, delivered>>

(* the insert and the commit of get_or_create_user *)
get_or_create_user_commit(session, store_fails) ==
    LET telegram_id == calls[session].args[1]
        user == [id |-> NextId(users), telegram_id |-> telegram_id, timezone |-> "UTC"]
        raised == IF store_fails \/ ~unique_telegram_id(users, user)
                  THEN "DatabaseError" ELSE None
    IN  /\ calls[session].op = "get_or_create_user"
        /\ users' = IF raised = None THEN users \cup {user} ELSE users
        /\ calls' = [calls EXCEPT ![session] = Returned]
        /\ last' = [Quiet EXCEPT !.op = "get_or_create_user", !.raised = raised,
                                 !.args = <<telegram_id>>,
                                 !.store_failed = store_fails,
                                 !.returned = IF raised = None THEN {user} ELSE {}]
        /\ UNCHANGED <<limiter_calls, handled, running, now, deadlines,
                       notification_settings,
                       sent_notifications,
                       delivered>>

(* DeadlineService.edit_timezone, up to the row it read: a zone that does  *)
(* not resolve is refused before the store is reached.                     *)
edit_timezone_select(session, telegram_id, timezone, store_fails) ==
    LET found == select_user(telegram_id)
        raised == IF ~is_valid_timezone(timezone) THEN "InvalidTimezoneError"
                  ELSE IF store_fails \/ MultipleResultsFound(found)
                  THEN "DatabaseError"
                  ELSE None
    IN  /\ calls[session] = Returned
        /\ IF raised = None
           THEN /\ calls' = [calls EXCEPT ![session] =
                               [op |-> "edit_timezone",
                                args |-> <<telegram_id, timezone>>, seen |-> found]]
                /\ UNCHANGED last
           ELSE /\ last' = [Quiet EXCEPT !.op = "edit_timezone", !.raised = raised,
                                         !.args = <<telegram_id, timezone>>,
                                         !.store_failed =
                                            (store_fails /\ is_valid_timezone(timezone))]
                /\ UNCHANGED calls
        /\ UNCHANGED <<limiter_calls, handled, running, users, now, deadlines,
                       notification_settings,
                       sent_notifications, delivered>>

(* the write and the commit of edit_timezone: an insert when no row was    *)
(* read, the assignment of the column of the row that was read otherwise   *)
edit_timezone_commit(session, store_fails) ==
    LET telegram_id == calls[session].args[1]
        timezone == calls[session].args[2]
        seen == calls[session].seen
        user == [id |-> NextId(users), telegram_id |-> telegram_id,
                 timezone |-> timezone]
        raised == IF store_fails \/ (seen = {} /\ ~unique_telegram_id(users, user))
                  THEN "DatabaseError" ELSE None
    IN  /\ calls[session].op = "edit_timezone"
        /\ users' = IF raised # None THEN users
                    ELSE IF seen = {} THEN users \cup {user}
                    ELSE {IF u.id \in {r.id : r \in seen}
                          THEN [u EXCEPT !.timezone = timezone] ELSE u : u \in users}
        /\ calls' = [calls EXCEPT ![session] = Returned]
        /\ last' = [Quiet EXCEPT !.op = "edit_timezone", !.raised = raised,
                                 !.args = <<telegram_id, timezone>>,
                                 !.store_failed = store_fails,
                                 !.answer = (raised = None)]
        /\ UNCHANGED <<limiter_calls, handled, running, now, deadlines,
                       notification_settings,
                       sent_notifications,
                       delivered>>

(* the lookup that answers the default whatever the table holds *)
stored_timezone_default(found) == {"UTC"}

(* the timezone get_timezone_for_user answers from the row it read *)
stored_timezone(found) == IF found = {} THEN {"UTC"} ELSE {u.timezone : u \in found}

(* DeadlineService.get_timezone_for_user: one SELECT and no write *)
get_timezone_for_user(telegram_id, store_fails) ==
    LET found == select_user(telegram_id)
        raised == IF store_fails \/ MultipleResultsFound(found)
                  THEN "DatabaseError" ELSE None
    IN  /\ last' = [Quiet EXCEPT !.op = "get_timezone_for_user", !.raised = raised,
                                 !.args = <<telegram_id>>,
                                 !.store_failed = store_fails,
                                 !.returned = IF raised = None
                                              THEN stored_timezone(found) ELSE {}]
        /\ UNCHANGED <<limiter_calls, handled, running, users, calls, now,
                       deadlines,
                       notification_settings,
                       sent_notifications, delivered>>

(* NotificationService.update_settings *)

update_settings(user_id, kwargs, store_fails) ==
    LET invalid_fields == DOMAIN kwargs \ valid_fields
        raised == IF invalid_fields # {} THEN "ValidationError"
                  ELSE IF store_fails THEN "DatabaseError"
                  ELSE None
        updated == IF SettingsOf(user_id) = {}
                   THEN {NewSettings(user_id, kwargs)}
                   ELSE {[f \in DOMAIN s |-> IF f \in DOMAIN kwargs THEN kwargs[f] ELSE s[f]] :
                            s \in SettingsOf(user_id)}
    IN  /\ notification_settings' =
               IF raised = None
               THEN (notification_settings \ SettingsOf(user_id)) \cup updated
               ELSE notification_settings
        /\ last' = [Quiet EXCEPT !.op = "update_settings", !.raised = raised]
        /\ UNCHANGED <<limiter_calls, handled, running, users, calls,
                       now, deadlines, sent_notifications, delivered>>

(* NotificationService.get_or_create_settings and update_settings as the   *)
(* sessions run them: a select step and, when the call goes on to write, a *)
(* commit step, between which another call can run.                        *)

(* the table that accepts a second row of a user_id *)
settings_unconstrained(rows, row) == TRUE

(* notification_settings.user_id is UNIQUE *)
unique_user_id(rows, row) == \A s \in rows : s.user_id # row.user_id

(* the check that passes a call as soon as it names one valid field *)
invalid_fields_unless_valid(kwargs) ==
    IF DOMAIN kwargs \cap valid_fields # {} THEN {} ELSE DOMAIN kwargs \ valid_fields

(* set(kwargs.keys()) - valid_fields *)
invalid_fields(kwargs) == DOMAIN kwargs \ valid_fields

get_or_create_settings_select(session, user_id, store_fails) ==
    LET found == SettingsOf(user_id)
        raised == IF store_fails \/ MultipleResultsFound(found)
                  THEN "DatabaseError" ELSE None
    IN  /\ calls[session] = Returned
        /\ IF raised = None /\ found = {}
           THEN /\ calls' = [calls EXCEPT ![session] =
                               [op |-> "get_or_create_settings",
                                args |-> <<user_id>>, seen |-> found]]
                /\ UNCHANGED last
           ELSE /\ last' = [Quiet EXCEPT !.op = "get_or_create_settings",
                                         !.raised = raised,
                                         !.args = <<user_id>>,
                                         !.store_failed = store_fails,
                                         !.returned = IF raised = None THEN found ELSE {}]
                /\ UNCHANGED calls
        /\ UNCHANGED <<limiter_calls, handled, running, users, now, deadlines,
                       notification_settings,
                       sent_notifications, delivered>>

(* the insert of NotificationSettings(user_id=user_id), every flag at its  *)
(* default, and the commit                                                 *)
get_or_create_settings_commit(session, store_fails) ==
    LET user_id == calls[session].args[1]
        settings == NewSettings(user_id, <<>>)
        raised == IF store_fails \/ ~unique_user_id(notification_settings, settings)
                  THEN "DatabaseError" ELSE None
    IN  /\ calls[session].op = "get_or_create_settings"
        /\ notification_settings' = IF raised = None
                                    THEN notification_settings \cup {settings}
                                    ELSE notification_settings
        /\ calls' = [calls EXCEPT ![session] = Returned]
        /\ last' = [Quiet EXCEPT !.op = "get_or_create_settings", !.raised = raised,
                                 !.args = <<user_id>>,
                                 !.store_failed = store_fails,
                                 !.returned = IF raised = None THEN {settings} ELSE {}]
        /\ UNCHANGED <<limiter_calls, handled, running, users, now, deadlines,
                       sent_notifications,
                       delivered>>

(* update_settings up to the row it read: the names of kwargs are checked  *)
(* before the store is reached                                             *)
update_settings_select(session, user_id, kwargs, store_fails) ==
    LET found == SettingsOf(user_id)
        raised == IF invalid_fields(kwargs) # {} THEN "ValidationError"
                  ELSE IF store_fails \/ MultipleResultsFound(found)
                  THEN "DatabaseError"
                  ELSE None
    IN  /\ calls[session] = Returned
        /\ IF raised = None
           THEN /\ calls' = [calls EXCEPT ![session] =
                               [op |-> "update_settings",
                                args |-> <<user_id, kwargs>>, seen |-> found]]
                /\ UNCHANGED last
           ELSE /\ last' = [Quiet EXCEPT !.op = "update_settings", !.raised = raised,
                                         !.args = <<user_id, kwargs>>,
                                         !.store_failed =
                                            (store_fails /\ invalid_fields(kwargs) = {})]
                /\ UNCHANGED calls
        /\ UNCHANGED <<limiter_calls, handled, running, users, now, deadlines,
                       notification_settings,
                       sent_notifications, delivered>>

(* the write and the commit of update_settings: an insert of a row with    *)
(* kwargs when no row was read; otherwise setattr on the row read, for the *)
(* names the row has, of which the session writes the columns whose value  *)
(* differs from the value it read.  The row read is the row of the user:   *)
(* a user has one row.                                                     *)
update_settings_commit(session, store_fails) ==
    LET user_id == calls[session].args[1]
        kwargs == calls[session].args[2]
        seen == calls[session].seen
        settings == NewSettings(user_id, kwargs)
        raised == IF store_fails
                     \/ (seen = {} /\ ~unique_user_id(notification_settings, settings))
                  THEN "DatabaseError" ELSE None
        written == {f \in DOMAIN kwargs \cap SettingsFlags :
                       \E r \in seen : r[f] # kwargs[f]}
        updated == {[f \in DOMAIN s |-> IF f \in written THEN kwargs[f] ELSE s[f]] :
                       s \in SettingsOf(user_id)}
    IN  /\ calls[session].op = "update_settings"
        /\ notification_settings' =
               IF raised # None THEN notification_settings
               ELSE IF seen = {} THEN notification_settings \cup {settings}
               ELSE (notification_settings \ SettingsOf(user_id)) \cup updated
        /\ calls' = [calls EXCEPT ![session] = Returned]
        /\ last' = [Quiet EXCEPT !.op = "update_settings", !.raised = raised,
                                 !.args = <<user_id, kwargs>>,
                                 !.store_failed = store_fails,
                                 !.returned = IF raised # None THEN {}
                                              ELSE IF seen = {} THEN {settings}
                                              ELSE updated]
        /\ UNCHANGED <<limiter_calls, handled, running, users, now, deadlines,
                       sent_notifications,
                       delivered>>

(* handlers.notifications.toggle_notification: the handler reads the row   *)
(* of the user, creating it when there is none, and calls update_settings  *)
(* with the named field set to the negation of its value; an exception of  *)
(* update_settings leaves the handler.                                     *)
toggle_notification(user_id, field) ==
    LET settings == IF SettingsOf(user_id) = {} THEN NewSettings(user_id, <<>>)
                    ELSE CHOOSE s \in SettingsOf(user_id) : TRUE
        kwargs == [f \in {field} |-> ~settings[field]]
        raised == IF invalid_fields(kwargs) # {} THEN "ValidationError" ELSE None
        updated == [f \in DOMAIN settings |->
                       IF f \in DOMAIN kwargs THEN kwargs[f] ELSE settings[f]]
    IN  /\ notification_settings' =
               (notification_settings \ SettingsOf(user_id))
                   \cup {IF raised = None THEN updated ELSE settings}
        /\ last' = [Quiet EXCEPT !.op = "toggle_notification", !.raised = raised,
                                 !.args = <<user_id, field>>,
                                 !.returned = IF raised = None THEN {updated} ELSE {}]
        /\ UNCHANGED <<limiter_calls, handled, running, users, calls, now,
                       deadlines,
                       sent_notifications, delivered>>

----------------------------------------------------------------------------
(* scheduler.check_upcoming_deadlines *)

(* The items the loop reaches: every item, since the try/except around the *)
(* dispatch and the ledger write swallows the error of an item.            *)
LoopAborts(notifications, send_fail, mark_fail) ==
    LET bad == {i \in 1..Len(notifications) :
                   notifications[i] \in send_fail \cup mark_fail}
    IN  IF bad = {} THEN [reached |-> 1..Len(notifications), raised |-> None]
        ELSE [reached |-> 1..(CHOOSE i \in bad : \A j \in bad : i <= j),
              raised |-> "Exception"]

LoopOutcome(notifications, send_fail, mark_fail) ==
    [reached |-> 1..Len(notifications), raised |-> None]

(* The items whose marker the loop writes: mark_as_sent follows            *)
(* bot.send_message inside the try, so it runs only after a dispatch that  *)
(* returned.                                                               *)
MarkedAlthoughUnsent(notifications, sent_idx, steps, send_fail, mark_fail) ==
    {notifications[i] : i \in {j \in sent_idx :
                                  /\ 2 * j <= steps
                                  /\ notifications[j] \notin mark_fail}}

MarkedItems(notifications, sent_idx, steps, send_fail, mark_fail) ==
    {notifications[i] : i \in {j \in sent_idx :
                                  /\ 2 * j <= steps
                                  /\ notifications[j] \notin send_fail
                                  /\ notifications[j] \notin mark_fail}}

(* One run of the job.  crash_at is the number of dispatch and ledger      *)
(* steps (two per item) the process completed before it died, -1 when it   *)
(* did not die.                                                            *)
check_upcoming_deadlines(fetch_fails, eval_fail, lookup_fail, send_fail, mark_fail, crash_at) ==
    IF FetchOutcome(fetch_fails) # None
    THEN /\ last' = [Quiet EXCEPT !.op = "check_upcoming_deadlines",
                                  !.raised = FetchOutcome(fetch_fails),
                                  !.fetch_failed = fetch_fails,
                                  !.retry = ("check_upcoming_deadlines" \in timer.failed)]
         /\ UNCHANGED <<limiter_calls, handled, running, users, calls, now,
                        deadlines,
                        notification_settings,
                        sent_notifications, delivered>>
    ELSE \E notifications \in {get_deadlines_for_notifications(eval_fail, lookup_fail)} :
         \E loop \in {LoopOutcome(notifications, send_fail, mark_fail)} :
         LET steps == IF crash_at = -1 THEN 2 * Len(notifications) ELSE crash_at
             sent_idx == {i \in loop.reached : 2 * i - 1 <= steps}
             dispatched == {notifications[i] : i \in {j \in sent_idx :
                                                   notifications[j] \notin send_fail}}
             marked == MarkedItems(notifications, sent_idx, steps, send_fail, mark_fail)
             failed == {notifications[i] : i \in {j \in sent_idx :
                                               \/ notifications[j] \in send_fail
                                               \/ /\ 2 * j <= steps
                                                  /\ notifications[j] \in mark_fail}}
         IN  /\ delivered' = [p \in Pairs |->
                                 IF p \in dispatched THEN delivered[p] + 1
                                 ELSE delivered[p]]
             /\ sent_notifications' = [p \in Pairs |->
                                 IF p \in marked THEN sent_notifications[p] + 1
                                 ELSE sent_notifications[p]]
             /\ last' = [Quiet EXCEPT !.op = "check_upcoming_deadlines",
                                      !.raised = loop.raised,
                                      !.fetch_failed = fetch_fails,
                                      !.reported = Range(notifications),
                                      !.dispatched = dispatched,
                                      !.marked = marked,
                                      !.failed = failed,
                                      !.skipped = eval_fail,
                                      !.lookup_failed = lookup_fail,
                                      !.send_fail = send_fail,
                                      !.retry = ("check_upcoming_deadlines" \in timer.failed),
                                      !.crashed = (crash_at # -1)]
             /\ UNCHANGED <<limiter_calls, handled, running, users, calls,
                            now, deadlines, notification_settings>>

(* scheduler.check_deadlines: the first statement of the job looks up      *)
(* get_due_unnotified on the DeadlineService, which does not define it.    *)
check_deadlines(send_fail) ==
    /\ "get_due_unnotified" \notin DeadlineServiceMethods
    /\ last' = [Quiet EXCEPT !.op = "check_deadlines", !.raised = "AttributeError",
                             !.send_fail = send_fail,
                             !.retry = ("check_deadlines" \in timer.failed)]
    /\ UNCHANGED <<limiter_calls, handled, running, users, calls, now,
                   deadlines,
                   notification_settings,
                   sent_notifications, delivered>>

(* DeadlineService.get_due: the comparison is against the naive local     *)
(* wall clock of the host, local_offset seconds ahead of UTC.              *)
get_due(local_offset, store_fails) ==
    /\ last' = IF store_fails
               THEN [Quiet EXCEPT !.op = "get_due", !.raised = "DatabaseError"]
               ELSE [Quiet EXCEPT !.op = "get_due",
                                  !.result = {d.id : d \in {e \in deadlines :
                                                 e.deadline_at <= now + local_offset}}]
    /\ UNCHANGED <<limiter_calls, handled, running, users, calls, now,
                   deadlines,
                   notification_settings,
                   sent_notifications, delivered>>

(* NotificationService.mark_as_sent *)

(* the insert that reaches the table although the commit failed *)
mark_as_sent_uncommitted(deadline_id, notification_type, store_fails) ==
    /\ sent_notifications' =
           [sent_notifications EXCEPT ![<<deadline_id, notification_type>>] = @ + 1]
    /\ last' = [Quiet EXCEPT !.op = "mark_as_sent",
                             !.args = <<deadline_id, notification_type>>,
                             !.raised = IF store_fails THEN "NotificationError" ELSE None]
    /\ UNCHANGED <<limiter_calls, handled, running, users, calls,
                   now, deadlines, notification_settings, delivered>>

mark_as_sent(deadline_id, notification_type, store_fails) ==
    /\ sent_notifications' =
           IF store_fails THEN sent_notifications
           ELSE [sent_notifications EXCEPT ![<<deadline_id, notification_type>>] = @ + 1]
    /\ last' = [Quiet EXCEPT !.op = "mark_as_sent",
                             !.args = <<deadline_id, notification_type>>,
                             !.raised = IF store_fails THEN "NotificationError" ELSE None]
    /\ UNCHANGED <<limiter_calls, handled, running, users, calls,
                   now, deadlines, notification_settings, delivered>>

(* NotificationService._was_sent, called on its own: it answers, raises    *)
(* nothing and changes no table.                                           *)
WasSentCall(deadline_id, notification_type, lookup_fails) ==
    /\ last' = [Quiet EXCEPT !.op = "_was_sent",
                             !.args = <<deadline_id, notification_type>>,
                             !.lookup_failed = IF lookup_fails
                                               THEN {<<deadline_id, notification_type>>}
                                               ELSE {},
                             !.answer = was_sent(deadline_id, notification_type,
                                                 lookup_fails)]
    /\ UNCHANGED <<limiter_calls, handled, running, users, calls, now,
                   deadlines,
                   notification_settings,
                   sent_notifications, delivered>>

(* scheduler.setup_scheduler: the executor that runs the two interval jobs. *)
(* A job that is submitted runs as a task of the event loop, which takes   *)
(* its steps between the steps of the other tasks.                         *)

(* the job added with max_instances=2 *)
max_instances_two(job) == 2

(* add_job is given no max_instances: the job takes the scheduler's default *)
max_instances(job) == 1

(* the executor that counts no instance *)
MaxInstancesNeverReached(job) == FALSE

MaxInstancesReached(job) == Len(running[job]) >= max_instances(job)

Started == [pc |-> "start", notifications |-> <<>>, next |-> 1]

Without(seq, i) == SubSeq(seq, 1, i - 1) \o SubSeq(seq, i + 1, Len(seq))

(* The instances of a job after instance i has left the item it was on:   *)
(* the loop goes on to the next item, and the run is over after the last. *)
NextItem(instances, i) ==
    IF instances[i].next = Len(instances[i].notifications)
    THEN Without(instances, i)
    ELSE [instances EXCEPT ![i].pc = "send", ![i].next = @ + 1]

(* The trigger of job fires: the executor starts an instance of the job,  *)
(* or logs that the maximum number of running instances is reached and    *)
(* skips the run.                                                          *)
submit_job(job) ==
    /\ running' = IF MaxInstancesReached(job) THEN running
                  ELSE [running EXCEPT ![job] = Append(@, Started)]
    /\ last' = [Quiet EXCEPT !.op = "submit_job", !.args = <<job>>,
                             !.raised = IF MaxInstancesReached(job)
                                        THEN "MaxInstancesReachedError" ELSE None]
    /\ UNCHANGED <<limiter_calls, handled, users, calls, now, deadlines,
                   notification_settings,
                   sent_notifications, delivered>>

(* Instance i of check_deadlines runs: its first statement raises, and     *)
(* the executor logs the exception and releases the instance.              *)
run_check_deadlines(i) ==
    /\ i \in 1..Len(running["check_deadlines"])
    /\ "get_due_unnotified" \notin DeadlineServiceMethods
    /\ running' = [running EXCEPT !["check_deadlines"] = Without(@, i)]
    /\ last' = [Quiet EXCEPT !.op = "check_deadlines", !.raised = "AttributeError"]
    /\ UNCHANGED <<limiter_calls, handled, users, calls, now, deadlines,
                   notification_settings,
                   sent_notifications, delivered>>

(* Instance i of check_upcoming_deadlines awaits the scan *)
run_get_deadlines_for_notifications(i) ==
    /\ i \in 1..Len(running["check_upcoming_deadlines"])
    /\ running["check_upcoming_deadlines"][i].pc = "start"
    /\ \E notifications \in {get_deadlines_for_notifications({}, {})} :
          /\ running' = [running EXCEPT !["check_upcoming_deadlines"] =
                            IF notifications = <<>> THEN Without(@, i)
                            ELSE [@ EXCEPT ![i] = [pc |-> "send",
                                                   notifications |-> notifications,
                                                   next |-> 1]]]
          /\ last' = [Quiet EXCEPT !.op = "get_deadlines_for_notifications",
                                   !.reported = Range(notifications)]
    /\ UNCHANGED <<limiter_calls, handled, users, calls, now, deadlines,
                   notification_settings,
                   sent_notifications, delivered>>

(* Instance i awaits bot.send_message for the item it is on; an exception  *)
(* is logged and the loop goes on to the next item.                        *)
run_send_message(i, send_fails) ==
    /\ i \in 1..Len(running["check_upcoming_deadlines"])
    /\ running["check_upcoming_deadlines"][i].pc = "send"
    /\ LET instance == running["check_upcoming_deadlines"][i]
           item == instance.notifications[instance.next]
       IN  /\ delivered' = IF send_fails THEN delivered
                           ELSE [delivered EXCEPT ![item] = @ + 1]
           /\ running' = [running EXCEPT !["check_upcoming_deadlines"] =
                             IF send_fails THEN NextItem(@, i)
                             ELSE [@ EXCEPT ![i].pc = "mark"]]
           /\ last' = [Quiet EXCEPT !.op = "send_message", !.args = item,
                                    !.raised = IF send_fails THEN "Exception" ELSE None]
    /\ UNCHANGED <<limiter_calls, handled, users, calls, now, deadlines,
                   notification_settings,
                   sent_notifications>>

(* Instance i awaits mark_as_sent for the item it has dispatched *)
run_mark_as_sent(i, store_fails) ==
    /\ i \in 1..Len(running["check_upcoming_deadlines"])
    /\ running["check_upcoming_deadlines"][i].pc = "mark"
    /\ LET instance == running["check_upcoming_deadlines"][i]
           item == instance.notifications[instance.next]
       IN  /\ sent_notifications' =
                  IF store_fails THEN sent_notifications
                  ELSE [sent_notifications EXCEPT ![item] = @ + 1]
           /\ running' = [running EXCEPT !["check_upcoming_deadlines"] = NextItem(@, i)]
           /\ last' = [Quiet EXCEPT !.op = "mark_as_sent", !.args = item,
                                    !.raised = IF store_fails THEN "NotificationError"
                                               ELSE None]
    /\ UNCHANGED <<limiter_calls, handled, users, calls, now, deadlines,
                   notification_settings, delivered>>

(* RateLimitMiddleware.__call__: the calls of the user that are younger    *)
(* than the limit are kept, the event is refused when max_calls of them    *)
(* remain, and is recorded and handed to its handler otherwise.  There is  *)
(* no await between the cleaning and the recording.                        *)

(* the cleaning that keeps a call through the instant it turns time_limit old *)
clean_inclusive(recorded) ==
    SelectSeq(recorded, LAMBDA call_time : now - call_time <= time_limit)

clean(recorded) ==
    SelectSeq(recorded, LAMBDA call_time : now - call_time < time_limit)

(* the limiter that lets one call more through *)
exceeded_after(recorded) == Len(recorded) > max_calls

exceeded(recorded) == Len(recorded) >= max_calls

RateLimitMiddleware(observer, user_id) ==
    LET recorded == clean(limiter_calls[observer][user_id])
    IN  /\ limiter_calls' = [limiter_calls EXCEPT ![observer][user_id] =
                                IF exceeded(recorded) THEN recorded
                                ELSE Append(recorded, now)]
        /\ handled' = IF exceeded(recorded) THEN handled
                      ELSE [handled EXCEPT ![<<observer, user_id, now>>] = @ + 1]
        /\ last' = [Quiet EXCEPT !.op = "__call__", !.args = <<observer, user_id>>,
                                 !.answer = exceeded(recorded)]
        /\ UNCHANGED <<running, users, calls, now, deadlines, notification_settings,
                       sent_notifications, delivered>>

(* The clock *)
Advance(step) ==
    /\ now + step <= MaxNow
    /\ now' = now + step
    /\ last' = [Quiet EXCEPT !.op = "advance"]
    /\ UNCHANGED <<limiter_calls, handled, running, users, calls,
                   deadlines, notification_settings, sent_notifications, delivered>>

----------------------------------------------------------------------------
(* The scheduler with a store, a dispatcher and a process that can fail *)

DueInstants == {HourSeconds + 150}

DtInputs == {[wall |-> w, tzinfo |-> "UTC"] : w \in DueInstants}

KwargsInputs ==
    {[notify_1_hour |-> TRUE], [notify_1_hour |-> FALSE]}

Init ==
    /\ now = 0
    /\ deadlines = {}
    /\ notification_settings = {}
    /\ users = {}
    /\ calls = [session \in Sessions |-> Returned]
    /\ running = [job \in Jobs |-> <<>>]
    /\ limiter_calls = [observer \in Observers |-> [user_id \in Users |-> <<>>]]
    /\ handled = [event \in Events |-> 0]
    /\ sent_notifications = [p \in Pairs |-> 0]
    /\ delivered = [p \in Pairs |-> 0]
    /\ timer = [pending |-> {}, missed |-> {}, failed |-> {}]
    /\ armed = [p \in Pairs |-> FALSE]
    /\ last = Quiet

(* A trigger of job has fired and the job runs now; the scheduler logs an  *)
(* exception the job raises and keeps the job scheduled.                   *)
Run(job) ==
    /\ job \in timer.pending
    /\ timer' = [pending |-> timer.pending \ {job},
                 missed |-> timer.missed \ {job},
                 failed |-> IF last'.raised # None
                            THEN timer.failed \cup {job}
                            ELSE timer.failed \ {job}]

(* The interval triggers of jobs fire, on time or late *)
Clock(jobs) ==
    /\ \E step \in AdvanceSteps : Advance(step)
    /\ timer' = [timer EXCEPT !.pending = jobs]

Create ==
    /\ Cardinality(deadlines) < MaxDeadlines
    /\ \E user_id \in Users, dt \in DtInputs :
          create(user_id, Title, dt, FALSE)
    /\ UNCHANGED <<timer, armed>>

UpdateSettings ==
    /\ \E user_id \in Users, kwargs \in KwargsInputs :
          update_settings(user_id, kwargs, FALSE)
    /\ UNCHANGED <<timer, armed>>

UpcomingTickFetchFails ==
    /\ check_upcoming_deadlines(TRUE, {}, {}, {}, {}, -1)
    /\ Run("check_upcoming_deadlines")
    /\ UNCHANGED armed

(* The faults of one run: the evaluation of at most one deadline or one    *)
(* ledger lookup fails, any dispatch and any ledger write fails, or the    *)
(* process dies after crash_at steps of an otherwise faultless run.        *)
UpcomingTick ==
    /\ \E eval_fail \in SUBSET {d.id : d \in FutureDeadlines},
          lookup_fail \in SUBSET LookedUp :
          /\ Cardinality(eval_fail) + Cardinality(lookup_fail) <= 1
          /\ \E items \in {Range(get_deadlines_for_notifications(eval_fail, lookup_fail))} :
             \/ \E send_fail \in SUBSET items :
                \E mark_fail \in SUBSET (items \ send_fail) :
                   check_upcoming_deadlines(FALSE, eval_fail, lookup_fail,
                                            send_fail, mark_fail, -1)
             \/ \E crash_at \in 0..(2 * Cardinality(items) - 1) :
                   check_upcoming_deadlines(FALSE, eval_fail, lookup_fail,
                                            {}, {}, crash_at)
    /\ Run("check_upcoming_deadlines")
    /\ UNCHANGED armed

UpcomingTrigger ==
    /\ Clock({"check_upcoming_deadlines"})
    /\ UNCHANGED armed

Next ==
    \/ Create
    \/ UpdateSettings
    \/ UpcomingTickFetchFails
    \/ UpcomingTick
    \/ UpcomingTrigger

Spec == Init /\ [][Next]_vars

----------------------------------------------------------------------------
(* The scheduler in normal operation: the interval trigger fires once per  *)
(* minute, a run of the job is missed at most once in a row, and the       *)
(* store, the dispatcher and the process do not fail.                      *)

NormalDueInstants == {HourSeconds + 120, ThreeHoursSeconds + 150}

NormalDtInputs == {[wall |-> w, tzinfo |-> "UTC"] : w \in NormalDueInstants}

NormalKwargsInputs ==
    {[notify_1_hour |-> TRUE, notify_3_hours |-> TRUE], [notify_1_hour |-> FALSE]}

NormalCreate ==
    /\ Cardinality(deadlines) < MaxDeadlines
    /\ \E user_id \in Users, dt \in NormalDtInputs :
          create(user_id, Title, dt, FALSE)
    /\ UNCHANGED timer
    /\ armed' = Arm(deadlines', notification_settings', now')

NormalUpdateSettings ==
    /\ \E user_id \in Users, kwargs \in NormalKwargsInputs :
          update_settings(user_id, kwargs, FALSE)
    /\ UNCHANGED timer
    /\ armed' = Arm(deadlines', notification_settings', now')

(* setup_scheduler: the interval trigger of the job *)
TimerFire ==
    /\ timer.pending = {}
    /\ now + IntervalSeconds <= MaxTicks * IntervalSeconds
    /\ now' = now + IntervalSeconds
    /\ timer' = [timer EXCEPT !.pending = {"check_upcoming_deadlines"}]
    /\ last' = [Quiet EXCEPT !.op = "advance"]
    /\ UNCHANGED <<limiter_calls, handled, running, users, calls,
                   deadlines, notification_settings, sent_notifications, delivered>>
    /\ armed' = Arm(deadlines', notification_settings', now')

(* A run of the job is skipped, never twice in a row *)
Miss ==
    /\ \E job \in timer.pending \ timer.missed :
          timer' = [timer EXCEPT !.pending = @ \ {job}, !.missed = @ \cup {job}]
    /\ last' = [Quiet EXCEPT !.op = "miss"]
    /\ UNCHANGED <<limiter_calls, handled, running, users, calls,
                   now, deadlines, notification_settings, sent_notifications,
                   delivered, armed>>

NormalUpcomingTick ==
    /\ check_upcoming_deadlines(FALSE, {}, {}, {}, {}, -1)
    /\ Run("check_upcoming_deadlines")
    /\ armed' = Arm(deadlines', notification_settings', now')

NormalNext ==
    \/ NormalCreate
    \/ NormalUpdateSettings
    \/ TimerFire
    \/ Miss
    \/ NormalUpcomingTick

SpecNormal == Init /\ [][NormalNext]_vars

----------------------------------------------------------------------------
(* The overdue job, the overdue fetch and the ledger *)

OverdueDueInstants == {60, 120}

OverdueDtInputs == {[wall |-> w, tzinfo |-> "UTC"] : w \in OverdueDueInstants}

LocalOffsets == {0, ThreeHoursSeconds}

OverdueCreate ==
    /\ Cardinality(deadlines) < MaxDeadlines
    /\ \E user_id \in Users, dt \in OverdueDtInputs :
          create(user_id, Title, dt, FALSE)
    /\ UNCHANGED <<timer, armed>>

OverdueUpdateSettings ==
    /\ \E user_id \in Users : update_settings(user_id, [notify_1_hour |-> TRUE], FALSE)
    /\ UNCHANGED <<timer, armed>>

OverdueTrigger ==
    /\ Clock({"check_deadlines"})
    /\ UNCHANGED armed

OverdueTick ==
    /\ \E send_fail \in SUBSET {d.id : d \in {e \in deadlines : e.deadline_at <= now}} :
          check_deadlines(send_fail)
    /\ Run("check_deadlines")
    /\ UNCHANGED armed

GetDue ==
    /\ \E local_offset \in LocalOffsets, store_fails \in BOOLEAN :
          get_due(local_offset, store_fails)
    /\ UNCHANGED <<timer, armed>>

MarkAsSent ==
    /\ \E d \in deadlines, store_fails \in BOOLEAN :
          /\ sent_notifications[<<d.id, Overdue>>] < MaxMarkers
          /\ mark_as_sent(d.id, Overdue, store_fails)
    /\ UNCHANGED <<timer, armed>>

OverdueNext ==
    \/ OverdueCreate
    \/ OverdueUpdateSettings
    \/ OverdueTrigger
    \/ OverdueTick
    \/ GetDue
    \/ MarkAsSent

SpecOverdue == Init /\ [][OverdueNext]_vars

----------------------------------------------------------------------------
(* The scan as a function of (deadline, settings, ledger, now) *)

ScanOffsets == {0, 1, 119, 120, 180}

ScanDueInstants ==
    {notification_checks[i].timeframe + off :
        i \in 1..Len(notification_checks), off \in ScanOffsets}
    \cup {HourSeconds - 60}

ScanSettings ==
    {{}} \cup {{NewSettings(1, [f \in on |-> TRUE])} : on \in SUBSET valid_fields}

ScanLedgers ==
    {[p \in Pairs |-> 0]} \cup
    {[p \in Pairs |-> IF p = <<1, t>> THEN 1 ELSE 0] : t \in LeadTypes}

ScanInit ==
    /\ now = 0
    /\ \E due \in ScanDueInstants :
          deadlines = {[id |-> 1, user_id |-> 1, title |-> Title, deadline_at |-> due]}
    /\ notification_settings \in ScanSettings
    /\ users = {}
    /\ calls = [session \in Sessions |-> Returned]
    /\ running = [job \in Jobs |-> <<>>]
    /\ limiter_calls = [observer \in Observers |-> [user_id \in Users |-> <<>>]]
    /\ handled = [event \in Events |-> 0]
    /\ sent_notifications \in ScanLedgers
    /\ delivered = [p \in Pairs |-> 0]
    /\ timer = [pending |-> {}, missed |-> {}, failed |-> {}]
    /\ armed = [p \in Pairs |-> FALSE]
    /\ last = Quiet

ScanTick ==
    /\ \E eval_fail \in SUBSET {d.id : d \in FutureDeadlines},
          lookup_fail \in SUBSET LookedUp :
          check_upcoming_deadlines(FALSE, eval_fail, lookup_fail, {}, {}, -1)
    /\ UNCHANGED <<timer, armed>>

ScanNext == ScanTick

SpecScan == ScanInit /\ [][ScanNext]_vars

----------------------------------------------------------------------------
(* The deadlines of a user over their life: created, retitled, moved to    *)
(* another due instant and deleted, between runs of the upcoming job that  *)
(* meet no fault.                                                          *)

LifecycleDueInstants == {HourSeconds + 60, HourSeconds + 180}

LifecycleDtInputs ==
    {[wall |-> w, tzinfo |-> "UTC"] : w \in LifecycleDueInstants}

LifecycleKwargs ==
    {[title |-> <<"b">>]} \cup {[dt |-> dt] : dt \in LifecycleDtInputs}

LifecycleCreate ==
    /\ NextId(deadlines) <= MaxDeadlines
    /\ \E dt \in LifecycleDtInputs : create(1, Title, dt, FALSE)
    /\ UNCHANGED <<timer, armed>>

LifecycleUpdate ==
    /\ \E d \in deadlines, kwargs \in LifecycleKwargs : update(d.id, kwargs, FALSE)
    /\ UNCHANGED <<timer, armed>>

LifecycleDelete ==
    /\ \E d \in deadlines : delete(d.id, d.user_id, FALSE)
    /\ UNCHANGED <<timer, armed>>

LifecycleUpdateSettings ==
    /\ \E kwargs \in KwargsInputs : update_settings(1, kwargs, FALSE)
    /\ UNCHANGED <<timer, armed>>

LifecycleTrigger ==
    /\ Clock({"check_upcoming_deadlines"})
    /\ UNCHANGED armed

LifecycleTick ==
    /\ check_upcoming_deadlines(FALSE, {}, {}, {}, {}, -1)
    /\ Run("check_upcoming_deadlines")
    /\ UNCHANGED armed

LifecycleNext ==
    \/ LifecycleCreate
    \/ LifecycleUpdate
    \/ LifecycleDelete
    \/ LifecycleUpdateSettings
    \/ LifecycleTrigger
    \/ LifecycleTick

SpecLifecycle == Init /\ [][LifecycleNext]_vars

----------------------------------------------------------------------------
(* The deadline store on its own: create, update and delete called in any  *)
(* order as the clock advances, with titles that are empty, blank, plain   *)
(* and padded, and due instants given in UTC, naive and with an offset.    *)

Titles == {<<>>, <<" ">>, <<"a">>, <<" ", "b", " ">>}

StoreDtInputs ==
    {[wall |-> IntervalSeconds, tzinfo |-> "UTC"],
     [wall |-> 2 * IntervalSeconds, tzinfo |-> "UTC"],
     [wall |-> 2 * IntervalSeconds, tzinfo |-> None],
     [wall |-> 2 * IntervalSeconds + UtcOffset["EST"], tzinfo |-> "EST"]}

StoreKwargs ==
    {[title |-> title] : title \in Titles}
    \cup {[dt |-> dt] : dt \in StoreDtInputs}
    \cup {[title |-> title, dt |-> [wall |-> IntervalSeconds, tzinfo |-> "UTC"]] :
              title \in {<<" ">>, <<"a">>}}

StoreCreate ==
    /\ NextId(deadlines) <= MaxDeadlines
    /\ \E title \in Titles, dt \in StoreDtInputs, store_fails \in BOOLEAN :
          create(1, title, dt, store_fails)
    /\ UNCHANGED <<timer, armed>>

StoreUpdate ==
    /\ \E deadline_id \in DeadlineIds, kwargs \in StoreKwargs,
          store_fails \in BOOLEAN :
          update(deadline_id, kwargs, store_fails)
    /\ UNCHANGED <<timer, armed>>

StoreDelete ==
    /\ \E deadline_id \in DeadlineIds, user_id \in Users :
          delete(deadline_id, user_id, FALSE)
    /\ UNCHANGED <<timer, armed>>

StoreAdvance ==
    /\ \E step \in AdvanceSteps : Advance(step)
    /\ UNCHANGED <<timer, armed>>

StoreNext ==
    \/ StoreCreate
    \/ StoreUpdate
    \/ StoreDelete
    \/ StoreAdvance

SpecStore == Init /\ [][StoreNext]_vars

----------------------------------------------------------------------------
(* The ledger on its own: mark_as_sent and _was_sent called in any order,  *)
(* for deadline ids that exist or not (the insert checks neither).         *)

LedgerTypes == {"1_hour", "1_day"}

LedgerMark ==
    /\ \E deadline_id \in DeadlineIds, notification_type \in LedgerTypes,
          store_fails \in BOOLEAN :
          /\ sent_notifications[<<deadline_id, notification_type>>] < MaxMarkers
          /\ mark_as_sent(deadline_id, notification_type, store_fails)
    /\ UNCHANGED <<timer, armed>>

LedgerWasSent ==
    /\ \E deadline_id \in DeadlineIds, notification_type \in LedgerTypes,
          lookup_fails \in BOOLEAN :
          WasSentCall(deadline_id, notification_type, lookup_fails)
    /\ UNCHANGED <<timer, armed>>

LedgerNext ==
    \/ LedgerMark
    \/ LedgerWasSent

SpecLedger == Init /\ [][LedgerNext]_vars

----------------------------------------------------------------------------
(* The deadlines of two users: each creates, reads, lists and deletes      *)
(* deadlines by id, its own and the other's, and a requester without a     *)
(* valid id does the same.                                                 *)

Requesters == Users \cup {0}

OwnersDtInputs ==
    {[wall |-> IntervalSeconds, tzinfo |-> "UTC"],
     [wall |-> 2 * IntervalSeconds, tzinfo |-> "UTC"]}

OwnersCreate ==
    /\ NextId(deadlines) <= MaxDeadlines
    /\ \E user_id \in Users, dt \in OwnersDtInputs : create(user_id, Title, dt, FALSE)
    /\ UNCHANGED <<timer, armed>>

OwnersGetById ==
    /\ \E deadline_id \in DeadlineIds, user_id \in Requesters, store_fails \in BOOLEAN :
          get_by_id(deadline_id, user_id, store_fails)
    /\ UNCHANGED <<timer, armed>>

OwnersDelete ==
    /\ \E deadline_id \in DeadlineIds, user_id \in Requesters :
          delete(deadline_id, user_id, FALSE)
    /\ UNCHANGED <<timer, armed>>

OwnersList ==
    /\ \E user_id \in Users, store_fails \in BOOLEAN : list_for_user(user_id, store_fails)
    /\ UNCHANGED <<timer, armed>>

OwnersNext ==
    \/ OwnersCreate
    \/ OwnersGetById
    \/ OwnersDelete
    \/ OwnersList

SpecOwners == Init /\ [][OwnersNext]_vars

----------------------------------------------------------------------------

(* The users table on its own: get_or_create_user, edit_timezone and       *)
(* get_timezone_for_user called from two sessions in any interleaving of   *)
(* their selects and commits, with zones that resolve and one that does    *)
(* not, on a store that can fail.                                          *)

TimezoneInputs == {"Europe/Moscow", "Asia/Tokyo", "Not/AZone"}

UsersGetOrCreateSelect ==
    /\ \E session \in Sessions, telegram_id \in Users, store_fails \in BOOLEAN :
          get_or_create_user_select(session, telegram_id, store_fails)
    /\ UNCHANGED <<timer, armed>>

UsersGetOrCreateCommit ==
    /\ \E session \in Sessions, store_fails \in BOOLEAN :
          get_or_create_user_commit(session, store_fails)
    /\ UNCHANGED <<timer, armed>>

UsersEditSelect ==
    /\ \E session \in Sessions, telegram_id \in Users, timezone \in TimezoneInputs,
          store_fails \in BOOLEAN :
          edit_timezone_select(session, telegram_id, timezone, store_fails)
    /\ UNCHANGED <<timer, armed>>

UsersEditCommit ==
    /\ \E session \in Sessions, store_fails \in BOOLEAN :
          edit_timezone_commit(session, store_fails)
    /\ UNCHANGED <<timer, armed>>

UsersGetTimezone ==
    /\ \E telegram_id \in Users, store_fails \in BOOLEAN :
          get_timezone_for_user(telegram_id, store_fails)
    /\ UNCHANGED <<timer, armed>>

UsersNext ==
    \/ UsersGetOrCreateSelect
    \/ UsersGetOrCreateCommit
    \/ UsersEditSelect
    \/ UsersEditCommit
    \/ UsersGetTimezone

SpecUsers == Init /\ [][UsersNext]_vars

----------------------------------------------------------------------------

(* The settings table on its own: get_or_create_settings and               *)
(* update_settings called from two sessions in any interleaving of their   *)
(* selects and commits, with names of flags that update_settings accepts   *)
(* and names it does not, on a store that can fail.                        *)

SettingsKwargs ==
    {[notify_1_hour |-> TRUE], [notify_1_hour |-> FALSE], [notify_1_day |-> TRUE],
     [notify_2_hours |-> TRUE], [notify_1_hour |-> TRUE, notify_2_hours |-> TRUE],
     [notify_on_due |-> TRUE]}

SettingsGetOrCreateSelect ==
    /\ \E session \in Sessions, user_id \in Users, store_fails \in BOOLEAN :
          get_or_create_settings_select(session, user_id, store_fails)
    /\ UNCHANGED <<timer, armed>>

SettingsGetOrCreateCommit ==
    /\ \E session \in Sessions, store_fails \in BOOLEAN :
          get_or_create_settings_commit(session, store_fails)
    /\ UNCHANGED <<timer, armed>>

SettingsUpdateSelect ==
    /\ \E session \in Sessions, user_id \in Users, kwargs \in SettingsKwargs,
          store_fails \in BOOLEAN :
          update_settings_select(session, user_id, kwargs, store_fails)
    /\ UNCHANGED <<timer, armed>>

SettingsUpdateCommit ==
    /\ \E session \in Sessions, store_fails \in BOOLEAN :
          update_settings_commit(session, store_fails)
    /\ UNCHANGED <<timer, armed>>

SettingsNext ==
    \/ SettingsGetOrCreateSelect
    \/ SettingsGetOrCreateCommit
    \/ SettingsUpdateSelect
    \/ SettingsUpdateCommit

SpecSettings == Init /\ [][SettingsNext]_vars

----------------------------------------------------------------------------

(* The toggle buttons of the settings message: each of two users presses   *)
(* the buttons of the six flags in any order.                              *)

ToggleFields ==
    {"notify_on_due", "notify_1_hour", "notify_3_hours", "notify_1_day",
     "notify_3_days", "notify_1_week"}

Toggle ==
    /\ \E user_id \in Users, field \in ToggleFields : toggle_notification(user_id, field)
    /\ UNCHANGED <<timer, armed>>

ToggleNext == Toggle

SpecToggle == Init /\ [][ToggleNext]_vars

----------------------------------------------------------------------------

(* The deadline store during an outage: create, update and delete are      *)
(* called with the store available or not, with titles and due instants    *)
(* that pass the validation and that do not, by the owner and by another   *)
(* user.                                                                   *)

OutageTitles == {<<"a">>, <<" ">>}

OutageDtInputs ==
    {[wall |-> IntervalSeconds, tzinfo |-> "UTC"],
     [wall |-> 2 * IntervalSeconds, tzinfo |-> "UTC"]}

OutageKwargs ==
    {[title |-> title] : title \in OutageTitles}
    \cup {[dt |-> dt] : dt \in OutageDtInputs}

OutageCreate ==
    /\ NextId(deadlines) <= MaxDeadlines
    /\ \E title \in OutageTitles, dt \in OutageDtInputs, store_fails \in BOOLEAN :
          create(1, title, dt, store_fails)
    /\ UNCHANGED <<timer, armed>>

OutageUpdate ==
    /\ \E deadline_id \in DeadlineIds, kwargs \in OutageKwargs, store_fails \in BOOLEAN :
          update(deadline_id, kwargs, store_fails)
    /\ UNCHANGED <<timer, armed>>

OutageDelete ==
    /\ \E deadline_id \in DeadlineIds, user_id \in Users, store_fails \in BOOLEAN :
          delete(deadline_id, user_id, store_fails)
    /\ UNCHANGED <<timer, armed>>

OutageAdvance ==
    /\ \E step \in AdvanceSteps : Advance(step)
    /\ UNCHANGED <<timer, armed>>

OutageNext ==
    \/ OutageCreate
    \/ OutageUpdate
    \/ OutageDelete
    \/ OutageAdvance

SpecOutage == Init /\ [][OutageNext]_vars

----------------------------------------------------------------------------

----------------------------------------------------------------------------
(* The two interval jobs on the event loop: a trigger is due once per      *)
(* interval, a run takes its steps at any later time, and the clock may    *)
(* pass the next trigger while a run is still on its way.                  *)

RunningDueInstants == {HourSeconds + 120}

RunningDtInputs == {[wall |-> w, tzinfo |-> "UTC"] : w \in RunningDueInstants}

RunningCreate ==
    /\ Cardinality(deadlines) < MaxDeadlines
    /\ \E dt \in RunningDtInputs : create(1, Title, dt, FALSE)
    /\ UNCHANGED <<running, timer, armed>>

RunningUpdateSettings ==
    /\ update_settings(1, [notify_1_hour |-> TRUE], FALSE)
    /\ UNCHANGED <<running, timer, armed>>

RunningClock ==
    /\ Clock(Jobs)
    /\ UNCHANGED <<limiter_calls, handled, running, armed>>

RunningTrigger ==
    /\ \E job \in timer.pending :
          /\ submit_job(job)
          /\ timer' = [timer EXCEPT !.pending = @ \ {job}]
    /\ UNCHANGED armed

RunningOverdue ==
    /\ \E i \in 1..Len(running["check_deadlines"]) : run_check_deadlines(i)
    /\ UNCHANGED <<timer, armed>>

RunningScan ==
    /\ \E i \in 1..Len(running["check_upcoming_deadlines"]) :
          run_get_deadlines_for_notifications(i)
    /\ UNCHANGED <<timer, armed>>

RunningSend ==
    /\ \E i \in 1..Len(running["check_upcoming_deadlines"]), send_fails \in BOOLEAN :
          run_send_message(i, send_fails)
    /\ UNCHANGED <<timer, armed>>

RunningMark ==
    /\ \E i \in 1..Len(running["check_upcoming_deadlines"]), store_fails \in BOOLEAN :
          run_mark_as_sent(i, store_fails)
    /\ UNCHANGED <<timer, armed>>

RunningNext ==
    \/ RunningCreate
    \/ RunningUpdateSettings
    \/ RunningClock
    \/ RunningTrigger
    \/ RunningOverdue
    \/ RunningScan
    \/ RunningSend
    \/ RunningMark

SpecRunning == Init /\ [][RunningNext]_vars

----------------------------------------------------------------------------
(* The two limiters under the messages and the callback queries of two     *)
(* users, which arrive at any instant, in bursts or spread over the limit. *)

RateSteps == {5, 10}

RECURSIVE Total(_, _)
Total(count, events) ==
    IF events = {} THEN 0
    ELSE LET event == CHOOSE e \in events : TRUE
         IN  count[event] + Total(count, events \ {event})

LimiterEvent ==
    /\ \E observer \in Observers, user_id \in Users :
          RateLimitMiddleware(observer, user_id)
    /\ Total(handled', Events) <= MaxEvents
    /\ UNCHANGED <<timer, armed>>

LimiterAdvance ==
    /\ \E step \in RateSteps :
          /\ now + step <= MaxRateNow
          /\ Advance(step)
    /\ UNCHANGED <<timer, armed>>

LimiterNext ==
    \/ LimiterEvent
    \/ LimiterAdvance

SpecLimiter == Init /\ [][LimiterNext]_vars

(* Vocabulary of the properties *)

LeadTime ==
    [t \in LeadTypes |->
        CASE t = "1_week"  -> 7 * 24 * HourSeconds
          [] t = "3_days"  -> 3 * 24 * HourSeconds
          [] t = "1_day"   -> 24 * HourSeconds
          [] t = "3_hours" -> 3 * HourSeconds
          [] t = "1_hour"  -> HourSeconds]

FlagName ==
    [t \in LeadTypes |->
        CASE t = "1_week"  -> "notify_1_week"
          [] t = "3_days"  -> "notify_3_days"
          [] t = "1_day"   -> "notify_1_day"
          [] t = "3_hours" -> "notify_3_hours"
          [] t = "1_hour"  -> "notify_1_hour"]

HasSettings(user_id) == \E s \in notification_settings : s.user_id = user_id

FlagOn(d, t) ==
    \E s \in notification_settings : s.user_id = d.user_id /\ s[FlagName[t]]

TimeUntil(d) == d.deadline_at - now

CurrentlyDue(d, t) ==
    LeadTime[t] <= TimeUntil(d) /\ TimeUntil(d) < LeadTime[t] + TwoMinutes

(* The ledger held a marker of the pair before the last operation *)
MarkedBefore(p) ==
    sent_notifications[p] > (IF p \in last.marked THEN 1 ELSE 0)

UpcomingRan == last.op = "check_upcoming_deadlines"

(* The arguments of the last call of create *)
CreateRan == last.op = "create"

GivenOwner == last.args[1]

GivenTitle == last.args[2]

GivenDue == Instant(ensure_aware(last.args[3]))

IsWhitespace(title) == \A i \in 1..Len(title) : title[i] = " "

OverdueRan == last.op = "check_deadlines"

Faultless ==
    /\ ~last.fetch_failed /\ ~last.crashed
    /\ last.skipped = {} /\ last.lookup_failed = {} /\ last.failed = {}

----------------------------------------------------------------------------
(* C1: in normal operation a pair (deadline, kind) is dispatched at most   *)
(* once and has one marker per dispatch; a run of the upcoming job inside  *)
(* the kind's window with the flag enabled leaves the pair dispatched      *)
(* exactly once, dispatching it in that run iff no marker existed.         *)
C1_ExactlyOnceNormal ==
    \A d \in deadlines, t \in LeadTypes :
        LET p == <<d.id, t>>
        IN  /\ delivered[p] <= 1
            /\ sent_notifications[p] = delivered[p]
            /\ (UpcomingRan /\ FlagOn(d, t) /\ CurrentlyDue(d, t))
                   => /\ delivered[p] = 1
                      /\ (p \in last.dispatched) = ~MarkedBefore(p)

(* a later run inside the window found the marker and did not dispatch *)
C1_Witness ==
    \E d \in deadlines, t \in LeadTypes :
        /\ UpcomingRan /\ FlagOn(d, t) /\ CurrentlyDue(d, t)
        /\ <<d.id, t>> \notin last.dispatched
        /\ delivered[<<d.id, t>>] = 1

(* C2: whatever the faults, every (deadline, kind) is dispatched at most   *)
(* once.                                                                   *)
C2_AtMostOnce == \A p \in Pairs : delivered[p] <= 1

C4_ScanReports ==
    (UpcomingRan /\ last.skipped = {} /\ last.lookup_failed = {}) =>
        \A d \in deadlines :
            /\ \A t \in LeadTypes :
                  (<<d.id, t>> \in last.reported) =
                      (FlagOn(d, t) /\ CurrentlyDue(d, t) /\ ~MarkedBefore(<<d.id, t>>))
            /\ (TimeUntil(d) = HourSeconds + 1 /\ FlagOn(d, "1_hour")
                    /\ ~MarkedBefore(<<d.id, "1_hour">>))
                  => <<d.id, "1_hour">> \in last.reported
            /\ TimeUntil(d) \in {HourSeconds + 180, HourSeconds - 60}
                  => <<d.id, "1_hour">> \notin last.reported

C4_Witness ==
    /\ UpcomingRan /\ last.skipped = {} /\ last.lookup_failed = {}
    /\ \E d \in deadlines :
          /\ TimeUntil(d) = HourSeconds + 1
          /\ <<d.id, "1_hour">> \in last.reported

(* C5: a run of the upcoming job creates no settings row, and for a        *)
(* deadline whose owner has no settings row it reports nothing,            *)
(* dispatches nothing and writes no marker.                                *)
C5_NoSettingsNoReminder ==
    [][(last'.op = "check_upcoming_deadlines" /\ timer' # timer) =>
          /\ notification_settings' = notification_settings
          /\ \A d \in deadlines, t \in LeadTypes :
                ~HasSettings(d.user_id) =>
                    /\ <<d.id, t>> \notin last'.reported
                    /\ delivered'[<<d.id, t>>] = delivered[<<d.id, t>>]
                    /\ sent_notifications'[<<d.id, t>>] = sent_notifications[<<d.id, t>>]]_vars

(* the run dispatched for another owner and passed over a deadline inside  *)
(* the window whose owner has no row                                       *)
C5_Witness ==
    /\ UpcomingRan /\ last.dispatched # {}
    /\ \E d \in deadlines :
          /\ ~HasSettings(d.user_id)
          /\ CurrentlyDue(d, "1_hour")
          /\ delivered[<<d.id, "1_hour">>] = 0

(* C6: a run of the overdue job dispatches the overdue message of every    *)
(* deadline with due_at <= now that had no overdue marker.                 *)
C6_OverdueUnconditional ==
    OverdueRan =>
        \A d \in deadlines :
            (d.deadline_at <= now /\ ~MarkedBefore(<<d.id, Overdue>>))
                => <<d.id, Overdue>> \in last.dispatched

(* C7: the overdue fetch returns exactly the deadlines with due_at <= now  *)
(* that have no overdue marker.                                            *)
C7_OverdueFetch ==
    (last.op = "get_due" /\ last.raised = None) =>
        last.result = {d.id : d \in {e \in deadlines :
                          /\ e.deadline_at <= now
                          /\ sent_notifications[<<e.id, Overdue>>] = 0}}

(* C8: in a run of the overdue job in which a dispatch fails, every other  *)
(* overdue deadline without marker is dispatched and recorded.             *)
C8_OverdueIsolation ==
    (OverdueRan /\ last.send_fail # {}) =>
        \A d \in deadlines :
            (/\ d.deadline_at <= now
             /\ d.id \notin last.send_fail
             /\ ~MarkedBefore(<<d.id, Overdue>>))
                => /\ <<d.id, Overdue>> \in last.dispatched
                   /\ <<d.id, Overdue>> \in last.marked

(* C9: a run of the upcoming job that fetched and did not die raises       *)
(* nothing, and every due pair that did not itself fail is dispatched and  *)
(* marked in that run.                                                     *)
C9_PerItemIsolation ==
    (UpcomingRan /\ ~last.fetch_failed /\ ~last.crashed) =>
        /\ last.raised = None
        /\ \A d \in deadlines, t \in LeadTypes :
              (/\ FlagOn(d, t) /\ CurrentlyDue(d, t)
               /\ ~MarkedBefore(<<d.id, t>>)
               /\ d.id \notin last.skipped
               /\ <<d.id, t>> \notin last.lookup_failed
               /\ <<d.id, t>> \notin last.failed)
                  => /\ <<d.id, t>> \in last.dispatched
                     /\ <<d.id, t>> \in last.marked

(* an item failed and another item of the same run was dispatched and marked *)
C9_Witness ==
    /\ UpcomingRan /\ ~last.crashed /\ last.raised = None
    /\ last.failed # {}
    /\ last.marked # {}

(* C10: a run of the upcoming job whose fetch fails raises                 *)
(* NotificationError, changes no table and dispatches nothing, and stays   *)
(* scheduled; the faultless run after a failed one dispatches and marks    *)
(* every due pair that has no marker.                                      *)
C10_FetchFailure ==
    [][(last'.op = "check_upcoming_deadlines" /\ timer' # timer) =>
          /\ last'.fetch_failed =>
                /\ last'.raised = "NotificationError"
                /\ "check_upcoming_deadlines" \in timer'.failed
                /\ UNCHANGED <<limiter_calls, handled, running, users, calls,
                               deadlines,
                               notification_settings,
                               sent_notifications, delivered>>
          /\ (/\ "check_upcoming_deadlines" \in timer.failed
              /\ ~last'.fetch_failed /\ ~last'.crashed
              /\ last'.skipped = {} /\ last'.lookup_failed = {} /\ last'.failed = {}) =>
                \A d \in deadlines, t \in LeadTypes :
                    (/\ FlagOn(d, t) /\ CurrentlyDue(d, t)
                     /\ sent_notifications[<<d.id, t>>] = 0)
                        => /\ delivered'[<<d.id, t>>] = delivered[<<d.id, t>>] + 1
                           /\ sent_notifications'[<<d.id, t>>] = 1]_vars

(* the run after a failed fetch dispatched a reminder *)
C10_Witness ==
    /\ UpcomingRan /\ last.retry /\ Faultless
    /\ last.dispatched # {}

(* C11: _was_sent(deadline_id, kind) raises nothing; when the lookup works *)
(* it answers true iff the ledger holds a marker of (deadline_id, kind),   *)
(* whatever markers of other kinds the deadline has, and when the lookup   *)
(* fails it answers true.                                                  *)
C11_WasSent ==
    last.op = "_was_sent" =>
        /\ last.raised = None
        /\ last.lookup_failed = {} =>
               last.answer = (sent_notifications[<<last.args[1], last.args[2]>>] >= 1)
        /\ last.lookup_failed # {} => last.answer

(* the lookup failed for a pair without marker and answered true, while    *)
(* the deadline holds a marker of another kind                             *)
C11_Witness ==
    /\ last.op = "_was_sent" /\ last.lookup_failed # {} /\ last.answer
    /\ sent_notifications[<<last.args[1], last.args[2]>>] = 0
    /\ \E t \in LedgerTypes : sent_notifications[<<last.args[1], t>>] >= 1

(* C12: a call of mark_as_sent(deadline_id, kind) that succeeds adds one   *)
(* marker row of (deadline_id, kind) and touches no other pair; a call     *)
(* whose insert fails raises NotificationError and leaves the ledger as    *)
(* it was, so a pair without marker stays without marker.                  *)
C12_MarkSent ==
    [][last'.op = "mark_as_sent" =>
          LET p == <<last'.args[1], last'.args[2]>>
          IN  /\ last'.raised \in {None, "NotificationError"}
              /\ last'.raised = None =>
                    /\ sent_notifications'[p] = sent_notifications[p] + 1
                    /\ \A q \in Pairs \ {p} :
                          sent_notifications'[q] = sent_notifications[q]
              /\ last'.raised = "NotificationError" =>
                    sent_notifications' = sent_notifications]_vars

(* the insert failed for a pair without marker, after an insert for        *)
(* another pair had succeeded                                              *)
C12_Witness ==
    /\ last.op = "mark_as_sent" /\ last.raised = "NotificationError"
    /\ sent_notifications[<<last.args[1], last.args[2]>>] = 0
    /\ \E q \in Pairs : sent_notifications[q] = 1

(* C13: once mark_as_sent(d, K) has succeeded twice or more, a working     *)
(* _was_sent(d, K) answers true, and a working _was_sent(d, K') for a kind *)
(* K' that was never marked answers false.                                 *)
C13_MarkTwice ==
    (last.op = "_was_sent" /\ last.lookup_failed = {}) =>
        LET marks == sent_notifications[<<last.args[1], last.args[2]>>]
        IN  /\ marks >= 2 => last.answer
            /\ marks = 0 => ~last.answer

(* the pair was marked twice and the lookup answered true, while another   *)
(* kind of the same deadline has no marker                                 *)
C13_Witness ==
    /\ last.op = "_was_sent" /\ last.lookup_failed = {} /\ last.answer
    /\ sent_notifications[<<last.args[1], last.args[2]>>] = 2
    /\ \E t \in LedgerTypes : sent_notifications[<<last.args[1], t>>] = 0

(* C14: in every reachable state the ledger holds at most one marker per   *)
(* (deadline id, kind).                                                    *)
C14_AtMostOneMarker == \A p \in Pairs : sent_notifications[p] <= 1

(* C15: a marker exists only for a pair whose dispatch has succeeded; a    *)
(* run of the upcoming job in which the dispatch of a pair fails writes no *)
(* marker of it; and a run that fetches and looks up without fault reports *)
(* every enabled pair inside its window that has no marker, so the pair    *)
(* whose dispatch failed is tried again, and dispatched when nothing fails.*)
C15_MarkerOnlyAfterDispatch ==
    [][/\ \A p \in Pairs : sent_notifications'[p] >= 1 => delivered'[p] >= 1
       /\ last'.op = "check_upcoming_deadlines" =>
             /\ \A p \in last'.send_fail :
                   /\ p \notin last'.marked
                   /\ sent_notifications'[p] = sent_notifications[p]
             /\ (/\ ~last'.fetch_failed
                 /\ last'.skipped = {} /\ last'.lookup_failed = {}) =>
                   \A d \in deadlines, t \in LeadTypes :
                       (/\ FlagOn(d, t) /\ CurrentlyDue(d, t)
                        /\ sent_notifications[<<d.id, t>>] = 0)
                           => /\ <<d.id, t>> \in last'.reported
                              /\ (~last'.crashed /\ <<d.id, t>> \notin last'.send_fail)
                                    => delivered'[<<d.id, t>>] = delivered[<<d.id, t>>] + 1]_vars

(* the dispatch of a pair failed, the pair has no marker and the next run  *)
(* of the job still falls inside its window                                *)
C15_Witness ==
    /\ UpcomingRan
    /\ \E d \in deadlines, t \in LeadTypes :
          /\ <<d.id, t>> \in last.send_fail
          /\ sent_notifications[<<d.id, t>>] = 0
          /\ delivered[<<d.id, t>>] = 0
          /\ TimeUntil(d) - IntervalSeconds >= LeadTime[t]

(* C16: no operation removes a marker (create, update, delete, a change of *)
(* settings and a run of the upcoming job leave every pair with at least   *)
(* the markers it had), and a run of the upcoming job neither reports nor  *)
(* dispatches a pair that has a marker, whatever its due instant is now.   *)
C16_MarkersKept ==
    [][/\ \A p \in Pairs : sent_notifications'[p] >= sent_notifications[p]
       /\ last'.op = "check_upcoming_deadlines" =>
             \A p \in Pairs :
                 sent_notifications[p] >= 1 =>
                     /\ p \notin last'.reported
                     /\ delivered'[p] = delivered[p]]_vars

(* a deadline that was reminded one hour ahead and then moved to a later   *)
(* due instant is inside the one-hour window again, and the run of the job *)
(* passes it over                                                          *)
C16_Witness ==
    /\ UpcomingRan
    /\ \E d \in deadlines :
          /\ d.deadline_at = HourSeconds + 180
          /\ d.title = <<"b">>
          /\ FlagOn(d, "1_hour") /\ CurrentlyDue(d, "1_hour")
          /\ sent_notifications[<<d.id, "1_hour">>] = 1
          /\ delivered[<<d.id, "1_hour">>] = 1
          /\ <<d.id, "1_hour">> \notin last.reported

C18_BlankTitleValidationError ==
    [][(CreateRan' /\ IsWhitespace(GivenTitle')) =>
          /\ isinstance(last'.raised, "ValidationError")
          /\ last'.raised = IF GivenDue' < now THEN "InvalidDeadlineError"
                            ELSE "ValidationError"
          /\ deadlines' = deadlines
          /\ last'.returned = {}]_vars

(* a title of one space, given with a due instant in the past to a store   *)
(* that holds a deadline, was refused                                      *)
C18_Witness ==
    /\ CreateRan /\ GivenTitle = <<" ">> /\ GivenDue < now
    /\ last.raised # None
    /\ deadlines # {}

(* C19: a call of create with a title that is not blank and due_at > now,  *)
(* on a store that works, succeeds, adds exactly one deadline and returns  *)
(* it with an id no stored deadline had, the given owner, the title        *)
(* stripped, and a timezone-aware due instant equal to the input, a naive  *)
(* input taken as UTC; the stored deadline has that due instant.           *)
C19_CreateReturns ==
    [][(/\ CreateRan' /\ ~IsWhitespace(GivenTitle') /\ GivenDue' > now
        /\ last'.raised # "DeadlineCreationError") =>
          /\ last'.raised = None
          /\ deadlines \subseteq deadlines'
          /\ Cardinality(deadlines') = Cardinality(deadlines) + 1
          /\ \E r \in last'.returned :
                /\ last'.returned = {r}
                /\ r.id \notin {d.id : d \in deadlines}
                /\ r.user_id = GivenOwner'
                /\ r.title = strip(GivenTitle')
                /\ r.deadline_at.tzinfo # None
                /\ Instant(r.deadline_at) = GivenDue'
                /\ \E d \in deadlines' \ deadlines :
                      /\ d.id = r.id /\ d.user_id = r.user_id /\ d.title = r.title
                      /\ d.deadline_at = GivenDue']_vars

(* C20: after any sequence of create, update and delete, every stored      *)
(* deadline has a title that is not empty and neither begins nor ends with *)
(* whitespace, and every due instant that a call of create or update       *)
(* stored was not before now at the time of the call.                      *)
C20_StoredDeadlinesValid ==
    [][/\ \A d \in deadlines' :
             /\ d.title # <<>>
             /\ Head(d.title) # " " /\ d.title[Len(d.title)] # " "
       /\ last'.op \in {"create", "update"} =>
             \A d \in deadlines' :
                 (~\E e \in deadlines : e.id = d.id /\ e.deadline_at = d.deadline_at)
                     => d.deadline_at >= now]_vars


(* The row of the given id, as the store held it *)
RowsOf(deadline_id) == {d \in deadlines : d.id = deadline_id}

(* The last call reached a working store and named a deadline that exists  *)
(* and belongs to another user than the requester, whose id is valid       *)
OwnerMismatch ==
    /\ Len(last.args) = 2
    /\ ~last.store_failed
    /\ ValidUserId(last.args[2])
    /\ \E d \in RowsOf(last.args[1]) : d.user_id # last.args[2]

(* C21: get_by_id on a deadline owned by another user raises               *)
(* ValidationError and on an absent id returns None; delete on a deadline  *)
(* owned by another user raises ValidationError and on an absent id raises *)
(* DeadlineNotFoundError.                                                  *)
C21_OwnershipValidationError ==
    /\ (last.op = "get_by_id" /\ OwnerMismatch)
          => isinstance(last.raised, "ValidationError")
    /\ (last.op = "delete" /\ OwnerMismatch)
          => isinstance(last.raised, "ValidationError")
    /\ (last.op = "get_by_id" /\ last.raised = None /\ RowsOf(last.args[1]) = {})
          => last.returned = {}
    /\ (last.op = "delete" /\ ValidUserId(last.args[2]) /\ last.raised # None
          /\ RowsOf(last.args[1]) = {})
          => last.raised = "DeadlineNotFoundError"

(* C22: a delete by a requester who does not own the deadline, or of an    *)
(* absent id, fails and leaves every stored deadline as it was; a delete   *)
(* by the owner removes that one deadline and returns true; get_by_id      *)
(* returns no deadline of another owner than the requester and changes     *)
(* nothing.                                                                *)
C22_NoCrossUserAccess ==
    [][/\ last'.op = "delete" =>
            LET found == RowsOf(last'.args[1])
                own == {d \in found : d.user_id = last'.args[2]}
            IN  /\ own = {} => last'.raised # None /\ deadlines' = deadlines
                /\ own # {} => /\ last'.raised = None
                               /\ last'.answer
                               /\ Cardinality(own) = 1
                               /\ deadlines' = deadlines \ own
       /\ last'.op = "get_by_id" =>
            /\ \A d \in last'.returned : d \in deadlines /\ d.user_id = last'.args[2]
            /\ deadlines' = deadlines]_vars

(* a user asked to delete the deadline of the other user, was refused, and *)
(* both deadlines are still stored                                         *)
C22_Witness ==
    /\ last.op = "delete"
    /\ OwnerMismatch
    /\ last.raised # None
    /\ Cardinality(deadlines) = 2

(* The arguments of the last call of update *)
UpdateRan == last.op = "update"

UpdatedId == last.args[1]

UpdateKwargs == last.args[2]

(* C23: an update that succeeds returns true and leaves one row of the     *)
(* given id, with the id and the owner it had; a title that was given is   *)
(* stored stripped and a title that was not given is unchanged; a due      *)
(* instant that was not given is unchanged; every other deadline is        *)
(* unchanged.                                                              *)
C23_PartialUpdate ==
    [][(UpdateRan' /\ last'.raised = None) =>
          LET old == RowsOf(UpdatedId')
              new == {d \in deadlines' : d.id = UpdatedId'}
          IN  /\ last'.answer
              /\ Cardinality(old) = 1 /\ Cardinality(new) = 1
              /\ deadlines' \ new = deadlines \ old
              /\ \A o \in old, n \in new :
                    /\ n.user_id = o.user_id
                    /\ n.title = IF "title" \in DOMAIN UpdateKwargs'
                                 THEN strip(UpdateKwargs'.title) ELSE o.title
                    /\ "dt" \notin DOMAIN UpdateKwargs' =>
                          n.deadline_at = o.deadline_at]_vars

(* a padded title alone was given for one of two stored deadlines and the  *)
(* update succeeded                                                        *)
C23_Witness ==
    /\ UpdateRan /\ last.raised = None
    /\ DOMAIN UpdateKwargs = {"title"}
    /\ UpdateKwargs.title = <<" ", "b", " ">>
    /\ Cardinality(deadlines) = 2

(* C24: an update with a blank title raises ValidationError; an update     *)
(* with a due instant in the past, and no title or a title that is not     *)
(* blank, raises InvalidDeadlineError; an update of an absent id with      *)
(* valid fields on a working store raises DeadlineNotFoundError; an update *)
(* that raises changes no stored deadline.                                 *)
C24_FailingUpdate ==
    [][UpdateRan' =>
          LET kwargs == UpdateKwargs'
              blank == "title" \in DOMAIN kwargs /\ IsWhitespace(kwargs.title)
              past == "dt" \in DOMAIN kwargs /\ Instant(ensure_aware(kwargs.dt)) < now
          IN  /\ blank => last'.raised = "ValidationError"
              /\ (past /\ ~blank) => last'.raised = "InvalidDeadlineError"
              /\ (~blank /\ ~past /\ RowsOf(UpdatedId') = {}
                    /\ last'.raised # "DeadlineUpdateError")
                    => last'.raised = "DeadlineNotFoundError"
              /\ last'.raised # None => deadlines' = deadlines /\ ~last'.answer]_vars

(* a blank title was given together with a due instant in the future for a *)
(* stored deadline, and the update was refused                             *)
C24_Witness ==
    /\ UpdateRan /\ last.raised = "ValidationError"
    /\ DOMAIN UpdateKwargs = {"title", "dt"}
    /\ Instant(ensure_aware(UpdateKwargs.dt)) > now
    /\ RowsOf(UpdatedId) # {}

(* C25: a call of list_for_user that succeeds returns every stored         *)
(* deadline of the user once and no deadline of another user, ascending by *)
(* the stored due instant, and the empty list for a user without deadline. *)
C25_ListForUser ==
    (last.op = "list_for_user" /\ last.raised = None) =>
        LET own == {d \in deadlines : d.user_id = last.args[1]}
            listed == last.listed
        IN  /\ Len(listed) = Cardinality(own)
            /\ {listed[i] : i \in 1 .. Len(listed)} = own
            /\ \A i, j \in 1 .. Len(listed) :
                  i < j => listed[i].deadline_at <= listed[j].deadline_at
            /\ own = {} => listed = <<>>

(* the user's later deadline was created first, and the list has the       *)
(* earlier one in front                                                    *)
C25_Witness ==
    /\ last.op = "list_for_user" /\ last.raised = None
    /\ Len(last.listed) = 2
    /\ last.listed[1].id > last.listed[2].id
    /\ last.listed[1].deadline_at < last.listed[2].deadline_at

(* The rows of the users table of a telegram_id *)
UserRows(telegram_id) == {u \in users : u.telegram_id = telegram_id}

(* The step is the commit of a call of op *)
Committed(op) == \E session \in Sessions : calls[session].op = op /\ calls'[session] = Returned

(* C26: a call of edit_timezone with a zone that resolves, when it         *)
(* succeeds, leaves one row of the user, created if there was none, with   *)
(* that zone and every other row as it was, and a call of                  *)
(* get_timezone_for_user for the user that follows it returns exactly that *)
(* zone; a call with a zone that does not resolve raises                   *)
(* InvalidTimezoneError and leaves the table as it was.                    *)
C26_TimezoneRoundTrip ==
    [][/\ (Committed("edit_timezone") /\ last'.raised = None) =>
            /\ last'.args[2] \in ZoneInfoKeys
            /\ last'.answer
            /\ \E u \in users' :
                  /\ {r \in users' : r.telegram_id = last'.args[1]} = {u}
                  /\ u.timezone = last'.args[2]
                  /\ users' \ {u} = users \ UserRows(last'.args[1])
       /\ (/\ last.op = "edit_timezone" /\ last.raised = None
           /\ last'.op = "get_timezone_for_user" /\ last'.raised = None
           /\ last'.args[1] = last.args[1]) =>
            last'.returned = {last.args[2]}
       /\ (last'.op = "edit_timezone" /\ last'.args[2] \notin ZoneInfoKeys) =>
            /\ last'.raised = "InvalidTimezoneError"
            /\ ~last'.answer
            /\ users' = users]_vars

(* the zone of a user was set, and the call of get_timezone_for_user       *)
(* returned it, while the other user has a row of its own                  *)
C26_Witness ==
    /\ last.op = "get_timezone_for_user"
    /\ last.returned = {"Asia/Tokyo"}
    /\ \E u \in UserRows(last.args[1]) : u.id = 1 /\ u.timezone = "Asia/Tokyo"
    /\ Cardinality(users) = 2

(* C27: a call of get_timezone_for_user raises nothing, whatever the store *)
(* does, returns the zone of the user's row, or "UTC" when there is none,  *)
(* and creates no row.                                                     *)
C27_GetTimezoneNeverFails ==
    [][last'.op = "get_timezone_for_user" =>
          /\ last'.raised = None
          /\ users' = users
          /\ last'.returned = IF UserRows(last'.args[1]) = {} THEN {"UTC"}
                              ELSE {u.timezone : u \in UserRows(last'.args[1])}]_vars

(* C27 as amended: a call of get_timezone_for_user creates no row; when    *)
(* the store can be read it raises nothing and returns the zone of the     *)
(* user's row, or "UTC" when there is none; when the store cannot be read  *)
(* it raises DatabaseError.                                                *)
C27_GetTimezone ==
    [][last'.op = "get_timezone_for_user" =>
          /\ users' = users
          /\ IF last'.store_failed
             THEN last'.raised = "DatabaseError" /\ last'.returned = {}
             ELSE /\ last'.raised = None
                  /\ last'.returned = IF UserRows(last'.args[1]) = {} THEN {"UTC"}
                                      ELSE {u.timezone : u \in UserRows(last'.args[1])}]_vars

(* the store failed under a call for a user whose row holds a zone *)
C27_Witness ==
    /\ last.op = "get_timezone_for_user"
    /\ last.store_failed /\ last.raised = "DatabaseError"
    /\ \E u \in UserRows(last.args[1]) : u.timezone = "Europe/Moscow"

(* C28: the users table never holds two rows of a telegram_id, whatever    *)
(* the interleaving of the selects and commits of get_or_create_user and   *)
(* edit_timezone; a call of get_or_create_user that finds a row returns    *)
(* that row and changes nothing.                                           *)
C28_OneUserRow ==
    [][/\ \A telegram_id \in Users :
             Cardinality({u \in users' : u.telegram_id = telegram_id}) <= 1
       /\ (/\ last'.op = "get_or_create_user" /\ last'.raised = None
           /\ UserRows(last'.args[1]) # {}) =>
             /\ last'.returned = UserRows(last'.args[1])
             /\ users' = users]_vars

(* two calls for one user both read no row; the insert of the second was   *)
(* refused and the table holds the row of the first                        *)
C28_Witness ==
    /\ last.op \in {"get_or_create_user", "edit_timezone"}
    /\ last.raised = "DatabaseError" /\ ~last.store_failed
    /\ Cardinality(UserRows(last.args[1])) = 1

(* C29: the settings table never holds two rows of a user and loses no     *)
(* row, whatever the interleaving of the selects and commits of            *)
(* get_or_create_settings and update_settings; after a call of either that *)
(* succeeded the user has exactly one row; get_or_create_settings returns  *)
(* a row that exists and changes nothing, and the row it creates has every *)
(* flag false.                                                             *)
C29_OneSettingsRow ==
    [][/\ \A user_id \in Users :
            /\ Cardinality({s \in notification_settings' : s.user_id = user_id}) <= 1
            /\ SettingsOf(user_id) # {} =>
                  \E s \in notification_settings' : s.user_id = user_id
       /\ (/\ last'.op \in {"get_or_create_settings", "update_settings"}
           /\ last'.raised = None) =>
            Cardinality({s \in notification_settings' : s.user_id = last'.args[1]}) = 1
       /\ (/\ last'.op = "get_or_create_settings" /\ last'.raised = None
           /\ SettingsOf(last'.args[1]) # {}) =>
            /\ last'.returned = SettingsOf(last'.args[1])
            /\ notification_settings' = notification_settings
       /\ (Committed("get_or_create_settings") /\ last'.raised = None) =>
            \E s \in last'.returned :
                /\ last'.returned = {s}
                /\ s.user_id = last'.args[1]
                /\ \A f \in SettingsFlags : ~s[f]
                /\ s \notin notification_settings
                /\ notification_settings' = notification_settings \cup {s}]_vars

(* get_or_create_settings and update_settings of one user both read no     *)
(* row; the insert of the second was refused and the user has the row of   *)
(* the first                                                               *)
C29_Witness ==
    /\ last.op \in {"get_or_create_settings", "update_settings"}
    /\ last.raised = "DatabaseError" /\ ~last.store_failed
    /\ Cardinality(SettingsOf(last.args[1])) = 1

(* C30: a call of update_settings that names a field outside the valid     *)
(* ones raises ValidationError, creates no row and changes no flag of a    *)
(* row, also when it names valid fields as well, and does not go on to a   *)
(* write.                                                                  *)
C30_UnrecognizedFlagRejected ==
    [][(/\ last'.op = "update_settings"
        /\ DOMAIN last'.args[2] \ valid_fields # {}) =>
          /\ last'.raised = "ValidationError"
          /\ last'.returned = {}
          /\ notification_settings' = notification_settings
          /\ calls' # calls => last' = last]_vars

(* a call that named a valid flag next to an unrecognized one was refused  *)
(* for a user whose row has the valid flag off                             *)
C30_Witness ==
    /\ last.op = "update_settings" /\ last.raised = "ValidationError"
    /\ DOMAIN last.args[2] = {"notify_1_hour", "notify_2_hours"}
    /\ \E s \in SettingsOf(last.args[1]) : ~s["notify_1_hour"]

(* C31: a toggle of any of the six flags through update_settings succeeds, *)
(* leaves the user one row in which that flag has the negated value and    *)
(* the other five flags the values they had (false where there was no      *)
(* row), and changes no row of another user.                               *)
C31_SixFlagsToggle ==
    [][last'.op = "toggle_notification" =>
          LET user_id == last'.args[1]
              field == last'.args[2]
              before == IF SettingsOf(user_id) = {}
                        THEN [f \in SettingsFlags |-> FALSE]
                        ELSE CHOOSE s \in SettingsOf(user_id) : TRUE
          IN  /\ last'.raised = None
              /\ \E s \in notification_settings' :
                    /\ {r \in notification_settings' : r.user_id = user_id} = {s}
                    /\ s[field] = ~before[field]
                    /\ \A f \in SettingsFlags \ {field} : s[f] = before[f]
                    /\ notification_settings' \ {s}
                          = notification_settings \ SettingsOf(user_id)]_vars

(* C32: a call of create, update or delete made while the store is         *)
(* unavailable raises an exception of the application's hierarchy, returns *)
(* nothing and changes no stored deadline; with arguments that pass the    *)
(* validation the exception is DeadlineCreationError for create,           *)
(* DeadlineUpdateError for update and DeadlineDeletionError for delete.    *)
C32_StoreFailureTyped ==
    [][(last'.op \in {"create", "update", "delete"} /\ last'.store_failed) =>
          /\ isinstance(last'.raised, "DeadlineBotError")
          /\ ~last'.answer
          /\ last'.returned = {}
          /\ deadlines' = deadlines
          /\ (/\ last'.op = "create" /\ ~IsWhitespace(last'.args[2])
              /\ Instant(ensure_aware(last'.args[3])) >= now)
                => last'.raised = "DeadlineCreationError"
          /\ (/\ last'.op = "update"
              /\ "title" \in DOMAIN last'.args[2] => ~IsWhitespace(last'.args[2].title)
              /\ "dt" \in DOMAIN last'.args[2] =>
                    Instant(ensure_aware(last'.args[2].dt)) >= now)
                => last'.raised = "DeadlineUpdateError"
          /\ last'.op = "delete" => last'.raised = "DeadlineDeletionError"]_vars

(* the store failed under the owner's delete of a stored deadline, which   *)
(* is still stored                                                         *)
C32_Witness ==
    /\ last.op = "delete" /\ last.store_failed
    /\ last.raised = "DeadlineDeletionError"
    /\ \E d \in RowsOf(last.args[1]) : d.user_id = last.args[2]

----------------------------------------------------------------------------
----------------------------------------------------------------------------
(* The items of the running executions of the upcoming-reminder scan that  *)
(* have passed the ledger check for pair and are not yet through their     *)
(* mark_as_sent.                                                           *)
InProgress(pair) ==
    UNION {{<<i, k>> : k \in {j \in running["check_upcoming_deadlines"][i].next ..
                                    Len(running["check_upcoming_deadlines"][i].notifications) :
                               running["check_upcoming_deadlines"][i].notifications[j] = pair}} :
           i \in 1..Len(running["check_upcoming_deadlines"])}

----------------------------------------------------------------------------
(* C35: in every reachable state the deadline id of every marker of        *)
(* sent_notifications is the id of a stored deadline.                      *)
C35_MarkersReferToDeadlines ==
    \A pair \in Pairs :
        sent_notifications[pair] > 0 => \E d \in deadlines : d.id = pair[1]

----------------------------------------------------------------------------
(* The lead-time kinds whose window holds the time left to the deadline *)
KindsInWindow(d) ==
    {notification_checks[i].type : i \in {j \in 1..Len(notification_checks) :
        InTimeframe(notification_checks[j].timeframe, TimeUntil(d))}}

(* C36: the windows [lead_time(K), lead_time(K) + 2 minutes) of the five   *)
(* lead-time kinds are pairwise disjoint, so for a deadline and an instant *)
(* at most one kind is due and one scan reports at most one reminder per   *)
(* deadline.                                                               *)
C36_OneKindPerDeadline ==
    [][/\ \A i, j \in 1..Len(notification_checks) :
             i # j => \/ notification_checks[i].timeframe + WINDOW
                            <= notification_checks[j].timeframe
                      \/ notification_checks[j].timeframe + WINDOW
                            <= notification_checks[i].timeframe
       /\ \A d \in deadlines : Cardinality(KindsInWindow(d)) <= 1
       /\ UpcomingRan'
          => \A id \in DeadlineIds :
                Cardinality({pair \in last'.reported : pair[1] = id}) <= 1]_vars

(* C36 witness: a scan of a deadline whose owner has enabled all five      *)
(* kinds, taken one second before the 3_hours window closes, has reported  *)
(* the 3_hours reminder and no other.                                      *)
C36_Witness ==
    /\ UpcomingRan
    /\ \E d \in deadlines :
          /\ TimeUntil(d) = ThreeHoursSeconds + WINDOW - 1
          /\ \A t \in LeadTypes : FlagOn(d, t)
          /\ last.reported = {<<d.id, "3_hours">>}

----------------------------------------------------------------------------
(* C37: the overdue selection and the lead-time selection made at the same *)
(* instant have no deadline in common: get_due answers only deadlines      *)
(* with due_at <= now, the lead-time scan considers only deadlines with    *)
(* due_at > now and reports no reminder for a deadline that is past due.   *)
C37_ScansDisjoint ==
    [][/\ (last'.op = "get_due" /\ last'.raised = None)
          => last'.result \cap {d.id : d \in FutureDeadlines'} = {}
       /\ UpcomingRan'
          => \A pair \in last'.reported :
                \E d \in deadlines : d.id = pair[1] /\ d.deadline_at > now]_vars

----------------------------------------------------------------------------
(* The events of the user that one limiter, or any limiter, was handed in  *)
(* the time_limit seconds that end with instant t.                         *)
WindowOf(observer, user_id, t) ==
    {e \in Events : e[1] = observer /\ e[2] = user_id
                    /\ t - e[3] < time_limit /\ e[3] <= t}

UserWindow(user_id, t) ==
    UNION {WindowOf(observer, user_id, t) : observer \in Observers}

LimiterRan == last.op = "__call__"

(* C38 as stated: at most max_calls events of a user are let through in    *)
(* any window of time_limit seconds, and an event of a user who has        *)
(* max_calls accepted events younger than time_limit is refused.           *)
C38_MaxCallsPerUser ==
    [][/\ \A user_id \in Users, t \in 0..MaxRateNow :
             Total(handled', UserWindow(user_id, t)) <= max_calls
       /\ (/\ LimiterRan'
           /\ Total(handled, UserWindow(last'.args[2], now)) >= max_calls)
          => last'.answer /\ handled' = handled]_vars

(* C38, amended: each of the two limiters (the one of the messages, the    *)
(* one of the callback queries) lets through at most max_calls events of a *)
(* user in any window of time_limit seconds.  An event that arrives while  *)
(* its limiter has accepted max_calls events of the user younger than      *)
(* time_limit is answered with the rate-limit message, is not handed to    *)
(* its handler and is not recorded; any other event is handed on.  The     *)
(* records of the other users and of the other limiter are left alone.     *)
C38_MaxCallsPerObserver ==
    [][/\ \A observer \in Observers, user_id \in Users, t \in 0..MaxRateNow :
             Total(handled', WindowOf(observer, user_id, t)) <= max_calls
       /\ LimiterRan'
          => LET observer == last'.args[1]
                 user_id == last'.args[2]
             IN  /\ IF Total(handled, WindowOf(observer, user_id, now)) >= max_calls
                    THEN /\ last'.answer
                         /\ handled' = handled
                         /\ Len(limiter_calls'[observer][user_id])
                               <= Len(limiter_calls[observer][user_id])
                    ELSE /\ ~last'.answer
                         /\ handled'[<<observer, user_id, now>>]
                               = handled[<<observer, user_id, now>>] + 1
                 /\ \A other \in Observers, other_id \in Users :
                       <<other, other_id>> # <<observer, user_id>>
                       => /\ limiter_calls'[other][other_id]
                                = limiter_calls[other][other_id]
                          /\ \A e \in Events :
                                (e[1] = other /\ e[2] = other_id)
                                => handled'[e] = handled[e]]_vars

(* C38 witness: a message of user 1 has been refused 5 seconds after the   *)
(* limiter accepted the fifth message of the burst, while a message of     *)
(* user 2 has been handed on in between.                                   *)
C38_Witness ==
    /\ LimiterRan
    /\ last.args = <<"message", 1>>
    /\ last.answer
    /\ now = 5
    /\ handled[<<"message", 1, 0>>] = max_calls
    /\ handled[<<"message", 2, 5>>] = 1

============================================================================
